---------------------------- MODULE Spec2Model ----------------------------
(***************************************************************************)
(* A model of HackBench (dcg864/htv): the target descriptor and its safety *)
(* gate, the reflection classifier, the session authenticator, the         *)
(* reflected and stored scenario modules and the orchestrator's main().    *)
(*                                                                         *)
(* Text is modelled as a sequence of one-character strings, so that        *)
(* prefix tests, substring search, replace() and lstrip() are computed     *)
(* character by character as the Python code computes them.                *)
(***************************************************************************)
EXTENDS Integers, Sequences, FiniteSets, TLC

VARIABLES
    target,     \* the TargetConfig object: host, port, use_https, _confirmed
    tOp,        \* the TargetConfig method called last ("init" after __init__)
    tArg,       \* its argument (the path of get_dvwa_url), <<>> otherwise
    tRet,       \* its return value
    cResp,      \* classifier: the response handed to check_xss_reflection
    cPayload,   \* classifier: the payload handed to it
    cOp,        \* classifier: "init", then "check_xss_reflection" once called
    cRet,       \* classifier: its return value
    auth,       \* the DVWAAuthenticator object: base_url, security_level, _logged_in
    aOp,        \* the authenticator method called last ("init" after __init__)
    aRet,       \* its return value
    aNet,       \* the requests it put on the wire, in order
    aArg,       \* the arguments of that call
    aResp,      \* what the server answered to each of these requests
    http,       \* the HTTPClient call made last: its request, what came back
                \* and the events it logged
    m,          \* the scenario module being run: its position and what it has
                \* sent, received and judged so far
    pc,         \* main(): the phase it is in
    args,       \* main(): args.mode and args.no_interactive once read
    current_level,      \* main(): what detect_security_level returned
    modules_run,        \* main(): the modules started, in order
    modules_succeeded,  \* main(): the modules whose run_interactive returned True
    logger,     \* the DualLogger: "unopened", "open" or "closed", and how often closed
    wire,       \* the requests main() and the authenticator issued before the modules
    mainRet,    \* how main() ended: NoReturn while it runs
    process     \* the Python process: whether the operator has interrupted it,
                \* whether the summary was printed, the script it was started
                \* from and its exit status once it has exited; and the calls
                \* main() has made that returned, each with its result

targetVars == <<target, tOp, tArg, tRet>>
clsVars == <<cResp, cPayload, cOp, cRet>>
authVars == <<auth, aOp, aRet, aNet, aArg, aResp>>
dispatchVars == <<http>>
moduleVars == <<m>>
mainVars == <<pc, args, current_level, modules_run, modules_succeeded, logger, wire, mainRet,
             process>>
vars == <<targetVars, clsVars, authVars, dispatchVars, moduleVars, mainVars>>

\* what each component leaves alone
notTarget == <<clsVars, authVars, dispatchVars, moduleVars, mainVars>>
notCls == <<targetVars, authVars, dispatchVars, moduleVars, mainVars>>
notAuth == <<targetVars, clsVars, dispatchVars, moduleVars, mainVars>>
notModule == <<targetVars, clsVars, authVars, dispatchVars, mainVars>>
notDispatch == <<targetVars, clsVars, authVars, moduleVars, mainVars>>
notMain == <<clsVars, dispatchVars, aOp, aRet, aNet, aArg, aResp, tArg, tRet>>

None == "None"

\* None where the code expects an Optional[requests.Response]
NoResponse == [none |-> TRUE]

\* main() has not returned
NoReturn == [running |-> TRUE]

\* args.mode and args.no_interactive have not been read
NoArgs == [read |-> FALSE]

\* the process is running: no Ctrl+C yet, no summary yet
Running ==
    [interrupted |-> FALSE, summarised |-> FALSE, exited |-> FALSE,
     entry |-> "unread", status |-> 0, trace |-> <<>>]

\* no DualLogger has been constructed
NoLogger == [state |-> "unopened", closed |-> 0]

(***************************************************************************)
(* Text constants                                                          *)
(***************************************************************************)
H_localhost == <<"l","o","c","a","l","h","o","s","t">>
H_LOCALHOST == <<"L","O","C","A","L","H","O","S","T">>
H_LocalHost == <<"L","o","c","a","l","H","o","s","t">>
H_127_0_0_1 == <<"1","2","7",".","0",".","0",".","1">>
H_ip6_loopback == <<":",":","1">>
H_0_0_0_0 == <<"0",".","0",".","0",".","0">>
H_10_0_0_1 == <<"1","0",".","0",".","0",".","1">>
H_10_1_2_3 == <<"1","0",".","1",".","2",".","3">>
H_172_16_0_5 == <<"1","7","2",".","1","6",".","0",".","5">>
H_172_20_1_1 == <<"1","7","2",".","2","0",".","1",".","1">>
H_172_31_255_255 == <<"1","7","2",".","3","1",".","2","5","5",".","2","5","5">>
H_192_168_1_100 == <<"1","9","2",".","1","6","8",".","1",".","1","0","0">>
H_192_168_1_1 == <<"1","9","2",".","1","6","8",".","1",".","1">>
H_8_8_8_8 == <<"8",".","8",".","8",".","8">>
H_172_15_0_1 == <<"1","7","2",".","1","5",".","0",".","1">>
H_172_32_0_1 == <<"1","7","2",".","3","2",".","0",".","1">>
H_172_160_0_1 == <<"1","7","2",".","1","6","0",".","0",".","1">>
H_172_1_6_1 == <<"1","7","2",".","1",".","6",".","1">>
H_192_169_0_1 == <<"1","9","2",".","1","6","9",".","0",".","1">>
H_100_0_0_1 == <<"1","0","0",".","0",".","0",".","1">>
H_1_10_0_1 == <<"1",".","1","0",".","0",".","1">>
H_127_0_0_2 == <<"1","2","7",".","0",".","0",".","2">>
H_localhost_evil == <<"l","o","c","a","l","h","o","s","t",".","e","v","i","l",".","c","o","m">>
H_xlocalhost == <<"x","l","o","c","a","l","h","o","s","t">>
H_10_evil == <<"1","0",".","e","v","i","l",".","c","o","m">>
H_example == <<"e","x","a","m","p","l","e",".","c","o","m">>
H_192_168 == <<"1","9","2",".","1","6","8">>
H_10 == <<"1","0">>
P_xss_r == <<"v","u","l","n","e","r","a","b","i","l","i","t","i","e","s","/","x","s","s","_","r","/">>
P_slash_xss_r == <<"/","v","u","l","n","e","r","a","b","i","l","i","t","i","e","s","/","x","s","s","_","r","/">>
P_login == <<"l","o","g","i","n",".","p","h","p">>
P_slash_login == <<"/","l","o","g","i","n",".","p","h","p">>
P_root == <<"/">>
P_dslash == <<"/","/","a">>
P_inner == <<"a","/","/","b","/">>
P_space == <<"a"," ","b","%","2","F">>
S_http == <<"h","t","t","p">>
S_https == <<"h","t","t","p","s">>
PAYLOAD_BASIC_ALERT == <<"<","s","c","r","i","p","t",">","a","l","e","r","t","(","1",")","<","/","s","c","r","i","p","t",">">>
PAYLOAD_IMG_ONERROR == <<"<","i","m","g"," ","s","r","c","=","x"," ","o","n","e","r","r","o","r","=","a","l","e","r","t","(","1",")",">">>
PAYLOAD_SVG_ONLOAD == <<"<","s","v","g","/","o","n","l","o","a","d","=","a","l","e","r","t","(","1",")",">">>
STORED_SCRIPT == <<"<","s","c","r","i","p","t",">","a","l","e","r","t","(","'","S","t","o","r","e","d"," ","X","S","S","'",")","<","/","s","c","r","i","p","t",">">>
STORED_IMG == <<"<","i","m","g"," ","s","r","c","=","x"," ","o","n","e","r","r","o","r","=","a","l","e","r","t","(","'","X","S","S","'",")",">">>
STORED_SVG == <<"<","s","v","g","/","o","n","l","o","a","d","=","a","l","e","r","t","(","'","X","S","S","'",")",">">>
TEST_INPUT == <<"T","e","s","t","U","s","e","r","1","2","3">>
S_lt == <<"&","l","t",";">>
S_gt == <<"&","g","t",";">>
S_pct3C == <<"%","3","C">>
S_pct3E == <<"%","3","E">>
S_pre_open == <<"<","p","r","e",">","H","e","l","l","o"," ">>
S_pre_close == <<"<","/","p","r","e",">">>
S_login_php == <<"l","o","g","i","n",".","p","h","p">>
S_slash_login_php == <<"/","l","o","g","i","n",".","p","h","p">>
S_slash_security_php == <<"/","s","e","c","u","r","i","t","y",".","p","h","p">>
S_index_php == <<"/","i","n","d","e","x",".","p","h","p">>
L_low == <<"l","o","w">>
L_medium == <<"m","e","d","i","u","m">>
L_high == <<"h","i","g","h">>
L_impossible == <<"i","m","p","o","s","s","i","b","l","e">>
L_High == <<"H","i","g","h">>
L_Low == <<"L","o","w">>
L_extreme == <<"e","x","t","r","e","m","e">>
S_admin == <<"a","d","m","i","n">>
S_password == <<"p","a","s","s","w","o","r","d">>
S_wrong == <<"l","e","t","m","e","i","n">>
S_Login == <<"L","o","g","i","n">>
S_Submit == <<"S","u","b","m","i","t">>
S_token_a == <<"a","1","b","2">>
S_token_b == <<"c","3","d","4">>
S_version == <<"1",".","1","0">>
S_unknown == <<"u","n","k","n","o","w","n">>
S_HTTP_sp == <<"H","T","T","P"," ">>
S_markers_not_found == <<"D","V","W","A"," ","m","a","r","k","e","r","s"," ","n","o","t"," ","f","o","u","n","d"," ","i","n"," ","r","e","s","p","o","n","s","e">>
S_conn_error == <<"C","o","n","n","e","c","t","i","o","n"," ","r","e","f","u","s","e","d">>
S_base_localhost == <<"h","t","t","p",":","/","/","l","o","c","a","l","h","o","s","t">>
P_xss_s == <<"v","u","l","n","e","r","a","b","i","l","i","t","i","e","s","/","x","s","s","_","s","/">>
P_xss_d == <<"v","u","l","n","e","r","a","b","i","l","i","t","i","e","s","/","x","s","s","_","d","/">>
S_author == <<"X","S","S"," ","T","e","s","t"," ","U","s","e","r">>
S_sign == <<"S","i","g","n"," ","G","u","e","s","t","b","o","o","k">>
S_ua_open == <<"\n","<","!","-","-"," ","U","A",":"," ">>
S_ua_close == <<" ","-","-",">">>
S_user_agent == <<"p","y","t","h","o","n","-","r","e","q","u","e","s","t","s","/","2">>
S_sep == <<":","/","/">>

Hosts ==
    { <<>>, H_localhost, H_LOCALHOST, H_LocalHost, H_127_0_0_1, H_ip6_loopback,
      H_0_0_0_0, H_10_0_0_1, H_10_1_2_3, H_172_16_0_5, H_172_20_1_1,
      H_172_31_255_255, H_192_168_1_100, H_192_168_1_1, H_8_8_8_8,
      H_172_15_0_1, H_172_32_0_1, H_172_160_0_1, H_172_1_6_1, H_192_169_0_1,
      H_100_0_0_1, H_1_10_0_1, H_127_0_0_2, H_localhost_evil, H_xlocalhost,
      H_10_evil, H_example, H_192_168, H_10 }

Ports == {80, 443, 8080, 8443}

Paths ==
    { <<>>, P_xss_r, P_slash_xss_r, P_login, P_slash_login, P_root, P_dslash,
      P_inner, P_space }

(***************************************************************************)
(* Python string primitives                                                *)
(***************************************************************************)
UpperChars == <<"A","B","C","D","E","F","G","H","I","J","K","L","M",
                "N","O","P","Q","R","S","T","U","V","W","X","Y","Z">>
LowerChars == <<"a","b","c","d","e","f","g","h","i","j","k","l","m",
                "n","o","p","q","r","s","t","u","v","w","x","y","z">>
DigitChars == <<"0","1","2","3","4","5","6","7","8","9">>

\* str.lower() on one character
LowerChar(c) ==
    IF \E i \in 1..26 : UpperChars[i] = c
    THEN LowerChars[CHOOSE i \in 1..26 : UpperChars[i] = c]
    ELSE c

\* str.lower()
lower(s) == [i \in 1..Len(s) |-> LowerChar(s[i])]

\* str.startswith(p)
StartsWith(s, p) == Len(s) >= Len(p) /\ SubSeq(s, 1, Len(p)) = p

\* the character at position i, "" past the end of the text
At(s, i) == IF i \in 1..Len(s) THEN s[i] ELSE ""

\* str(n) / f"{n}" for a non-negative integer
RECURSIVE IntToStr(_)
IntToStr(n) ==
    IF n < 10 THEN <<DigitChars[n + 1]>>
    ELSE IntToStr(n \div 10) \o <<DigitChars[(n % 10) + 1]>>

\* str.lstrip('/'): every leading '/' is removed
RECURSIVE lstrip_slash(_)
lstrip_slash(s) ==
    IF Len(s) > 0 /\ s[1] = "/" THEN lstrip_slash(Tail(s)) ELSE s

(***************************************************************************)
(* TargetConfig (core/target_config.py)                                    *)
(***************************************************************************)
ALLOWED_HOSTS == {H_localhost, H_127_0_0_1, H_ip6_loopback, H_0_0_0_0}

\* TargetConfig.__init__: _confirmed is False
TargetConfig(host, port, use_https) ==
    [host |-> host, port |-> port, use_https |-> use_https, confirmed |-> FALSE]

\* re.match(r'^10\.', host)
Match10(host) == At(host, 1) = "1" /\ At(host, 2) = "0" /\ At(host, 3) = "."

\* re.match(r'^172\.(1[6-9]|2[0-9]|3[0-1])\.', host)
Match172(host) ==
    /\ At(host, 1) = "1" /\ At(host, 2) = "7" /\ At(host, 3) = "2"
    /\ At(host, 4) = "."
    /\ \/ At(host, 5) = "1" /\ At(host, 6) \in {"6", "7", "8", "9"}
       \/ At(host, 5) = "2" /\ At(host, 6) \in {DigitChars[i] : i \in 1..10}
       \/ At(host, 5) = "3" /\ At(host, 6) \in {"0", "1"}
    /\ At(host, 7) = "."

\* re.match(r'^192\.168\.', host)
Match192(host) ==
    /\ At(host, 1) = "1" /\ At(host, 2) = "9" /\ At(host, 3) = "2"
    /\ At(host, 4) = "."
    /\ At(host, 5) = "1" /\ At(host, 6) = "6" /\ At(host, 7) = "8"
    /\ At(host, 8) = "."

\* TargetConfig._is_private_ip
is_private_ip(host) == Match10(host) \/ Match172(host) \/ Match192(host)

\* a slip in the safe-host test: the host is compared as typed
is_safe_target_CaseSensitive(t) ==
    IF t.host \in ALLOWED_HOSTS THEN TRUE
    ELSE IF is_private_ip(t.host) THEN TRUE
    ELSE t.confirmed

\* TargetConfig.is_safe_target
is_safe_target(t) ==
    IF lower(t.host) \in ALLOWED_HOSTS THEN TRUE
    ELSE IF is_private_ip(t.host) THEN TRUE
    ELSE t.confirmed

\* TargetConfig.base_url
base_url(t) ==
    LET scheme == IF t.use_https THEN S_https ELSE S_http
    IN  IF t.port \in {80, 443}
        THEN scheme \o S_sep \o t.host
        ELSE scheme \o S_sep \o t.host \o <<":">> \o IntToStr(t.port)

\* a slip in get_dvwa_url: the path is appended as given
get_dvwa_url_NoStrip(t, path) == base_url(t) \o <<"/">> \o path

\* TargetConfig.get_dvwa_url
get_dvwa_url(t, path) == base_url(t) \o <<"/">> \o lstrip_slash(path)

\* a slip in confirm_target: the flag is toggled instead of set
confirm_target_Toggle(t) == [t EXCEPT !.confirmed = ~t.confirmed]

\* TargetConfig.confirm_target
confirm_target(t) == [t EXCEPT !.confirmed = TRUE]

(***************************************************************************)
(* HTTP responses and the reflection classifier (core/http_client.py)      *)
(***************************************************************************)
\* a requests.Response as the code reads it: status_code and text
Response(status, text) == [status_code |-> status, text |-> text]

StatusCodes == {200, 302, 404, 500}

\* `if not response`: None is false; a requests.Response is true exactly when
\* its status is no client or server error (Response.__bool__ is Response.ok)
Truthy(response) ==
    /\ response # NoResponse
    /\ ~(response.status_code >= 400 /\ response.status_code < 600)

\* `needle in text`
Contains(text, needle) ==
    \E i \in 0..(Len(text) - Len(needle)) :
        SubSeq(text, i + 1, i + Len(needle)) = needle

\* str.replace(old, new) for a one-character old
RECURSIVE replace(_, _, _)
replace(s, old, new) ==
    IF s = <<>> THEN <<>>
    ELSE (IF Head(s) = old THEN new ELSE <<Head(s)>>) \o replace(Tail(s), old, new)

\* payload.replace('<', '&lt;').replace('>', '&gt;')
HtmlEncoded(payload) == replace(replace(payload, "<", S_lt), ">", S_gt)

\* payload.replace('<', '%3C').replace('>', '%3E')
UrlEncoded(payload) == replace(replace(payload, "<", S_pct3C), ">", S_pct3E)

\* a slip in the classifier: an encoded echo counts as a reflection too
check_xss_reflection_AnyVariant(response, payload) ==
    IF ~Truthy(response) THEN FALSE
    ELSE \/ Contains(response.text, payload)
         \/ Contains(response.text, HtmlEncoded(payload))
         \/ Contains(response.text, UrlEncoded(payload))

\* HTTPClient.check_xss_reflection
check_xss_reflection(response, payload) ==
    IF ~Truthy(response) THEN FALSE
    ELSE IF Contains(response.text, payload) THEN TRUE
    ELSE IF \E variant \in {HtmlEncoded(payload), UrlEncoded(payload)} :
                Contains(response.text, variant)
         THEN FALSE
    ELSE FALSE

\* ReflectedXSSModule.payloads and StoredXSSModule.payloads, in list order
ReflectedPayloads == <<PAYLOAD_BASIC_ALERT, PAYLOAD_IMG_ONERROR, PAYLOAD_SVG_ONLOAD>>
StoredPayloads == <<STORED_SCRIPT, STORED_IMG, STORED_SVG>>

(***************************************************************************)
(* The session authenticator (core/auth.py)                                *)
(*                                                                         *)
(* A fetched page is modelled by what the code reads of it: status_code,   *)
(* the final url, and what BeautifulSoup / re find in its text: the input  *)
(* named user_token and its value, the option marked selected and its      *)
(* value, the word after 'Security Level is currently: ', a DVWA marker,   *)
(* and the version after 'v'.                                              *)
(***************************************************************************)
\* None where the code expects an Optional[str]
NoneText == <<None>>

\* session.get / session.post raising requests.exceptions.RequestException
RequestException == [raises |-> "RequestException"]

Page(status, url, token, selected, word, marker, version) ==
    [ status_code |-> status, url |-> url,
      has_token_input |-> token[1], token_value |-> token[2],
      has_selected |-> selected[1], selected_value |-> selected[2],
      level_word |-> word, has_marker |-> marker, version |-> version ]

\* the pages a server answers with, whatever was asked of it
AuthPages ==
    LET login == S_base_localhost \o S_slash_login_php
        index == S_base_localhost \o S_index_php
        security == S_base_localhost \o S_slash_security_php
        no == <<FALSE, <<>>>>
    IN  { Page(200, login, <<TRUE, S_token_a>>, no, <<>>, TRUE, S_version),
          Page(200, login, no, no, <<>>, TRUE, <<>>),
          Page(200, login, <<TRUE, <<>>>>, no, <<>>, FALSE, <<>>),
          Page(200, index, no, no, <<>>, TRUE, S_version),
          Page(404, index, no, no, <<>>, TRUE, <<>>),
          Page(500, login, <<TRUE, S_token_b>>, no, <<>>, FALSE, <<>>),
          Page(200, security, <<TRUE, S_token_b>>, <<TRUE, L_Low>>, L_low, FALSE, <<>>),
          Page(200, security, no, no, L_High, FALSE, <<>>),
          Page(200, security, <<TRUE, S_token_a>>, <<TRUE, <<>>>>, L_medium, FALSE, <<>>),
          Page(200, security, no, no, <<>>, FALSE, <<>>) }

\* Ctrl+C while a call blocks: KeyboardInterrupt, which no `except Exception`
\* or `except RequestException` clause catches
KeyboardInterrupt == [raises |-> "KeyboardInterrupt"]

\* what one session.get / session.post call can come back with
Outcomes == AuthPages \cup {RequestException}

\* a request put on the wire: method, url and form data (<<>> for a GET)
Request(method, url, data) == [method |-> method, url |-> url, data |-> data]

\* DVWAAuthenticator.__init__
DVWAAuthenticator(base) ==
    [base_url |-> base, security_level |-> NoneText, logged_in |-> FALSE]

\* what a call leaves behind: the authenticator, the value returned and the
\* requests it issued
Outcome(a, ret, net) == [auth |-> a, ret |-> ret, net |-> net, raised |-> FALSE]

\* a call left by a KeyboardInterrupt: nothing is returned
Raises(a, net) == [auth |-> a, ret |-> None, net |-> net, raised |-> TRUE]

\* DVWAAuthenticator._extract_csrf_token
extract_csrf_token(page) ==
    IF page.has_token_input /\ page.token_value # <<>>
    THEN page.token_value
    ELSE NoneText

\* a slip in the form: the user_token field is sent whether or not a token
\* was extracted
WithToken_Always(data, csrf_token) ==
    [f \in DOMAIN data \cup {"user_token"} |->
        IF f = "user_token" THEN csrf_token ELSE data[f]]

\* form data with the user_token field added when a token was extracted
WithToken(data, csrf_token) ==
    IF csrf_token # NoneText /\ csrf_token # <<>>
    THEN [f \in DOMAIN data \cup {"user_token"} |->
            IF f = "user_token" THEN csrf_token ELSE data[f]]
    ELSE data

\* a slip in login: a failed attempt drops the authenticated state
login_ResetOnFailure(a, username, password, r1, r2) ==
    LET login_url == a.base_url \o S_slash_login_php
        get == Request("GET", login_url, <<>>)
    IN  IF r1 = RequestException \/ r1.status_code # 200
        THEN Outcome([a EXCEPT !.logged_in = FALSE], FALSE, <<get>>)
        ELSE LET login_data ==
                    WithToken([username |-> username, password |-> password,
                               Login |-> S_Login], extract_csrf_token(r1))
                 post == Request("POST", login_url, login_data)
             IN  IF r2 # RequestException
                    /\ ~Contains(r2.url, S_login_php) /\ r2.status_code = 200
                 THEN Outcome([a EXCEPT !.logged_in = TRUE], TRUE, <<get, post>>)
                 ELSE Outcome([a EXCEPT !.logged_in = FALSE], FALSE, <<get, post>>)

\* DVWAAuthenticator.login; r1 answers the GET, r2 the POST
login(a, username, password, r1, r2) ==
    LET login_url == a.base_url \o S_slash_login_php
        get == Request("GET", login_url, <<>>)
    IN  IF r1 = KeyboardInterrupt THEN Raises(a, <<get>>)
        ELSE IF r1 = RequestException THEN Outcome(a, FALSE, <<get>>)
        ELSE IF r1.status_code # 200 THEN Outcome(a, FALSE, <<get>>)
        ELSE LET csrf_token == extract_csrf_token(r1)
                 login_data ==
                    WithToken([username |-> username, password |-> password,
                               Login |-> S_Login], csrf_token)
                 post == Request("POST", login_url, login_data)
             IN  IF r2 = KeyboardInterrupt THEN Raises(a, <<get, post>>)
                 ELSE IF r2 = RequestException THEN Outcome(a, FALSE, <<get, post>>)
                 ELSE IF ~Contains(r2.url, S_login_php) /\ r2.status_code = 200
                 THEN Outcome([a EXCEPT !.logged_in = TRUE], TRUE, <<get, post>>)
                 ELSE Outcome(a, FALSE, <<get, post>>)

\* a slip in detect_security_level: the page is fetched without looking at
\* the authentication state
detect_security_level_Unguarded(a, r) ==
    LET get == Request("GET", a.base_url \o S_slash_security_php, <<>>)
    IN  IF r = KeyboardInterrupt THEN Raises(a, <<get>>)
        ELSE IF r = RequestException THEN Outcome(a, NoneText, <<get>>)
        ELSE IF r.status_code # 200 THEN Outcome(a, NoneText, <<get>>)
        ELSE IF r.level_word # <<>>
        THEN Outcome([a EXCEPT !.security_level = lower(r.level_word)],
                     lower(r.level_word), <<get>>)
        ELSE Outcome(a, NoneText, <<get>>)

\* DVWAAuthenticator.detect_security_level; r answers the GET
detect_security_level(a, r) ==
    LET get == Request("GET", a.base_url \o S_slash_security_php, <<>>)
    IN  IF ~a.logged_in THEN Outcome(a, NoneText, <<>>)
        ELSE IF r = KeyboardInterrupt THEN Raises(a, <<get>>)
        ELSE IF r = RequestException THEN Outcome(a, NoneText, <<get>>)
        ELSE IF r.status_code # 200 THEN Outcome(a, NoneText, <<get>>)
        ELSE IF r.has_selected
        THEN LET level == lower(r.selected_value)
             IN  Outcome([a EXCEPT !.security_level = level], level, <<get>>)
        ELSE IF r.level_word # <<>>
        THEN LET level == lower(r.level_word)
             IN  Outcome([a EXCEPT !.security_level = level], level, <<get>>)
        ELSE Outcome(a, NoneText, <<get>>)

KnownLevels == {L_low, L_medium, L_high, L_impossible}

\* a slip in set_security_level: the level is recorded before the POST is
\* answered
set_security_level_RecordsFirst(a, level_arg, r1, r2) ==
    LET level == lower(level_arg)
        security_url == a.base_url \o S_slash_security_php
        get == Request("GET", security_url, <<>>)
        recorded == [a EXCEPT !.security_level = level]
    IN  IF ~a.logged_in THEN Outcome(a, FALSE, <<>>)
        ELSE IF level \notin KnownLevels THEN Outcome(a, FALSE, <<>>)
        ELSE IF r1 = KeyboardInterrupt THEN Raises(a, <<get>>)
        ELSE IF r1 = RequestException THEN Outcome(a, FALSE, <<get>>)
        ELSE LET csrf_token == extract_csrf_token(r1)
                 data == WithToken([security |-> level, seclev_submit |-> S_Submit],
                                   csrf_token)
                 post == Request("POST", security_url, data)
             IN  IF r2 = KeyboardInterrupt THEN Raises(recorded, <<get, post>>)
                 ELSE IF r2 = RequestException
                 THEN Outcome(recorded, FALSE, <<get, post>>)
                 ELSE IF r2.status_code = 200
                 THEN Outcome(recorded, TRUE, <<get, post>>)
                 ELSE Outcome(a, FALSE, <<get, post>>)

\* a slip in set_security_level: the level is not validated
set_security_level_Unvalidated(a, level_arg, r1, r2) ==
    LET level == lower(level_arg)
        security_url == a.base_url \o S_slash_security_php
        get == Request("GET", security_url, <<>>)
    IN  IF ~a.logged_in THEN Outcome(a, FALSE, <<>>)
        ELSE IF r1 = KeyboardInterrupt THEN Raises(a, <<get>>)
        ELSE IF r1 = RequestException THEN Outcome(a, FALSE, <<get>>)
        ELSE LET csrf_token == extract_csrf_token(r1)
                 data == WithToken([security |-> level, seclev_submit |-> S_Submit],
                                   csrf_token)
                 post == Request("POST", security_url, data)
             IN  IF r2 = KeyboardInterrupt THEN Raises(a, <<get, post>>)
                 ELSE IF r2 = RequestException THEN Outcome(a, FALSE, <<get, post>>)
                 ELSE IF r2.status_code = 200
                 THEN Outcome([a EXCEPT !.security_level = level], TRUE, <<get, post>>)
                 ELSE Outcome(a, FALSE, <<get, post>>)

\* DVWAAuthenticator.set_security_level; r1 answers the GET, r2 the POST
set_security_level(a, level_arg, r1, r2) ==
    LET level == lower(level_arg)
        security_url == a.base_url \o S_slash_security_php
        get == Request("GET", security_url, <<>>)
    IN  IF ~a.logged_in THEN Outcome(a, FALSE, <<>>)
        ELSE IF level \notin KnownLevels THEN Outcome(a, FALSE, <<>>)
        ELSE IF r1 = KeyboardInterrupt THEN Raises(a, <<get>>)
        ELSE IF r1 = RequestException THEN Outcome(a, FALSE, <<get>>)
        ELSE LET csrf_token == extract_csrf_token(r1)
                 data == WithToken([security |-> level, seclev_submit |-> S_Submit],
                                   csrf_token)
                 post == Request("POST", security_url, data)
             IN  IF r2 = KeyboardInterrupt THEN Raises(a, <<get, post>>)
                 ELSE IF r2 = RequestException THEN Outcome(a, FALSE, <<get, post>>)
                 ELSE IF r2.status_code = 200
                 THEN Outcome([a EXCEPT !.security_level = level], TRUE, <<get, post>>)
                 ELSE Outcome(a, FALSE, <<get, post>>)

\* DVWAAuthenticator.get_csrf_token; r answers the GET
get_csrf_token(a, url, r) ==
    LET get == Request("GET", url, <<>>)
    IN  IF r = KeyboardInterrupt THEN Raises(a, <<get>>)
        ELSE IF r = RequestException THEN Outcome(a, NoneText, <<get>>)
        ELSE IF r.status_code = 200 THEN Outcome(a, extract_csrf_token(r), <<get>>)
        ELSE Outcome(a, NoneText, <<get>>)

\* DVWAAuthenticator.verify_dvwa_presence; r answers the GET
verify_dvwa_presence(a, r) ==
    LET get == Request("GET", a.base_url \o S_slash_login_php, <<>>)
    IN  IF r = KeyboardInterrupt THEN Raises(a, <<get>>)
        ELSE IF r = RequestException THEN Outcome(a, <<FALSE, S_conn_error>>, <<get>>)
        ELSE IF r.status_code # 200
        THEN Outcome(a, <<FALSE, S_HTTP_sp \o IntToStr(r.status_code)>>, <<get>>)
        ELSE IF r.has_marker
        THEN Outcome(a, <<TRUE, IF r.version # <<>> THEN r.version ELSE S_unknown>>,
                     <<get>>)
        ELSE Outcome(a, <<FALSE, S_markers_not_found>>, <<get>>)

\* DVWAAuthenticator.is_authenticated
is_authenticated(a) == a.logged_in

(***************************************************************************)
(* What verify_dvwa_presence reads in the body of the login page           *)
(***************************************************************************)
S_damn_vulnerable == <<"D","a","m","n"," ","V","u","l","n","e","r","a","b","l","e"," ","W","e","b"," ","A","p","p","l","i","c","a","t","i","o","n">>
S_DVWA == <<"D","V","W","A">>

\* \d
IsDigit(c) == \E i \in 1..10 : DigitChars[i] = c

\* the character class [\d.]
IsVersionChar(c) == c = "." \/ IsDigit(c)

\* the longest run of [\d.] characters that starts at position i
RECURSIVE VersionRun(_, _)
VersionRun(text, i) ==
    IF IsVersionChar(At(text, i)) THEN <<text[i]>> \o VersionRun(text, i + 1)
    ELSE <<>>

\* re.search(r'v([\d.]+)', text): group(1) of the leftmost match, <<>> when
\* nothing matches
search_version(text) ==
    LET starts == { i \in 1..Len(text) :
                      text[i] = "v" /\ IsVersionChar(At(text, i + 1)) }
    IN  IF starts = {} THEN <<>>
        ELSE VersionRun(text, (CHOOSE i \in starts : \A j \in starts : i <= j) + 1)

\* 'Damn Vulnerable Web Application' in response.text or 'DVWA' in response.text
find_markers(text) == Contains(text, S_damn_vulnerable) \/ Contains(text, S_DVWA)

\* the login page as verify_dvwa_presence reads it
LoginPage(response, url) ==
    Page(response.status_code, url, <<FALSE, <<>>>>, <<FALSE, <<>>>>, <<>>,
         find_markers(response.text), search_version(response.text))
(***************************************************************************)
(* The request dispatcher (core/http_client.py)                            *)
(***************************************************************************)
\* what a dispatcher call leaves behind: the value returned, the events it
\* caused in order, and whether a KeyboardInterrupt left it
Dispatched(ret, events, raised) == [ret |-> ret, events |-> events, raised |-> raised]

\* logger.http_request(method, prepared.url, log_payload)
HttpRequestEvent(request) == [event |-> "http_request", request |-> request]

\* request_recorder.record(prepared)
RecordEvent(request) == [event |-> "record", request |-> request]

\* session.send(prepared, timeout=timeout)
SendEvent(request) == [event |-> "send", request |-> request]

\* logger.http_response(response.status_code, response.text[:200])
HttpResponseEvent(response) ==
    [event |-> "http_response", status_code |-> response.status_code]

\* logger.operational(f"{method} request failed: {e}", "ERROR")
ErrorEvent(request) == [event |-> "operational", level |-> "ERROR", request |-> request]

\* BurpRequestRecorder.record could not write its file: the exception is
\* caught there and logged,
\* logger.operational(f"Failed to record request for Burp export: {exc}", "WARNING")
RecordFailedEvent(request) ==
    [event |-> "operational", level |-> "WARNING", request |-> request]

\* request_recorder.record(prepared): the hand-off, and the warning when the
\* entry could not be written
Recorded(request, written) ==
    <<RecordEvent(request)>>
        \o (IF written THEN <<>> ELSE <<RecordFailedEvent(request)>>)

\* a slip in _send: a recorder that fails keeps the request from being sent
BeforeResponse_RecorderStops(request, recorder, written) ==
    <<HttpRequestEvent(request)>>
        \o (IF recorder THEN Recorded(request, written) ELSE <<>>)
        \o (IF recorder /\ ~written THEN <<>> ELSE <<SendEvent(request)>>)

\* the events of _send up to and including the send
BeforeResponse(request, recorder, written) ==
    <<HttpRequestEvent(request)>>
        \o (IF recorder THEN Recorded(request, written) ELSE <<>>)
        \o <<SendEvent(request)>>

\* a slip in _send: the transport failure is logged and raised again
HTTPClient_send_Reraises(request, recorder, written, outcome) ==
    IF outcome = KeyboardInterrupt \/ outcome = RequestException
    THEN Dispatched(NoResponse,
                    BeforeResponse(request, recorder, written) \o <<ErrorEvent(request)>>, TRUE)
    ELSE Dispatched(outcome, BeforeResponse(request, recorder, written)
                                \o <<HttpResponseEvent(outcome)>>, FALSE)

\* HTTPClient._send: the request is logged, handed to the recorder when one
\* is configured, and sent; a response is logged and returned, a
\* RequestException is logged at ERROR level and becomes None
HTTPClient_send(request, recorder, written, outcome) ==
    IF outcome = KeyboardInterrupt
    THEN Dispatched(NoResponse, BeforeResponse(request, recorder, written), TRUE)
    ELSE IF outcome = RequestException
    THEN Dispatched(NoResponse,
                    BeforeResponse(request, recorder, written) \o <<ErrorEvent(request)>>, FALSE)
    ELSE Dispatched(outcome, BeforeResponse(request, recorder, written)
                                \o <<HttpResponseEvent(outcome)>>, FALSE)

\* HTTPClient.get(url, params)
HTTPClient_get(url, params, recorder, written, outcome) ==
    HTTPClient_send(Request("GET", url, params), recorder, written, outcome)

\* HTTPClient.post(url, data)
HTTPClient_post(url, data, recorder, written, outcome) ==
    HTTPClient_send(Request("POST", url, data), recorder, written, outcome)

\* HTTPClient.__init__: the client keeps its recorder; no call has been made
HTTPClient(request_recorder) ==
    [op |-> "init", request |-> <<>>, recorder |-> request_recorder,
     written |-> TRUE, outcome |-> NoResponse, ret |-> NoResponse,
     events |-> <<>>, raised |-> FALSE]

\* no HTTPClient is in use
NoCall == HTTPClient(FALSE)

(***************************************************************************)
(* The request dispatcher and the scenario modules                         *)
(* (core/http_client.py, modules/reflected.py, stored.py, dom_based.py)    *)
(*                                                                         *)
(* A module run is a sequence of steps; each step runs the code from one   *)
(* blocking point (an input prompt or a network call) to the next.         *)
(***************************************************************************)
\* HTTPClient._send: a RequestException becomes None, a response is returned
send(outcome) == IF outcome = RequestException THEN NoResponse ELSE outcome

\* a request on the wire and the object that sent it: "HTTPClient" for the
\* dispatcher's get/post, "session" for the authenticator's own session.get
Sent(request, via) == [request |-> request, via |-> via]

\* the page around what the server echoes
Wrap(echo) == S_pre_open \o echo \o S_pre_close

ModuleStatusCodes == {200, 404}

\* what the server can answer to a request carrying `payload`: the payload
\* echoed verbatim or HTML-encoded, under either status
ModuleResponses(payload) ==
    { Response(st, Wrap(e)) :
        st \in ModuleStatusCodes, e \in {payload, HtmlEncoded(payload)} }

\* what a dispatched request can come back with
ModuleOutcomes(payload) ==
    ModuleResponses(payload) \cup {RequestException, KeyboardInterrupt}

\* what the baseline request of a module can come back with
BaselineOutcomes ==
    { Response(st, Wrap(TEST_INPUT)) : st \in ModuleStatusCodes }
        \cup {RequestException, KeyboardInterrupt}

\* what the token fetch of the stored module can come back with
TokenOutcomes ==
    LET page == S_base_localhost \o <<"/">> \o P_xss_s
        no == <<FALSE, <<>>>>
    IN  { Page(200, page, <<TRUE, S_token_a>>, no, <<>>, FALSE, <<>>),
          Page(200, page, no, no, <<>>, FALSE, <<>>),
          Page(404, page, <<TRUE, S_token_b>>, no, <<>>, FALSE, <<>>),
          RequestException, KeyboardInterrupt }

\* what the operator can type at a [y/N] prompt, or Ctrl+C
Answers == {"y", "n", "KeyboardInterrupt"}

\* _get_user_approval: 'y' or 'yes' approves; KeyboardInterrupt and EOFError
\* are caught and count as a refusal
get_user_approval(answer) == answer \in {"y", "yes"}

\* self.payloads of the module
Payloads(kind) == IF kind = "stored" THEN StoredPayloads ELSE ReflectedPayloads

\* no go/no-go prompt of the module has been declined
NoDecline == [prompt |-> "none", answer |-> "none", sent |-> 0]

\* no module has been constructed
NoModule ==
    [ kind |-> "none", interactive |-> FALSE, pc |-> "idle", idx |-> 0,
      ret |-> FALSE, net |-> <<>>, verdicts |-> <<>>, baseline |-> NoResponse,
      token |-> NoneText, post |-> NoResponse, resp |-> NoResponse,
      interrupted |-> FALSE, declined |-> NoDecline ]

\* run_interactive(interactive) entered: the first blocking point is the
\* first prompt when interactive, the baseline request otherwise
Module(kind, interactive) ==
    [ NoModule EXCEPT !.kind = kind, !.interactive = interactive,
        !.pc = IF interactive THEN "prompt_examine" ELSE "baseline" ]

\* `return value` in run_interactive
Returned(mm, value) == [mm EXCEPT !.pc = "returned", !.ret = value]

\* a KeyboardInterrupt leaving run_interactive
Raised(mm) == [mm EXCEPT !.pc = "raised", !.interrupted = TRUE]

\* input() has come back with `answer`, or was left by Ctrl+C
Asked(mm, answer) ==
    [mm EXCEPT !.interrupted = @ \/ answer = "KeyboardInterrupt"]

\* a slip at the go/no-go prompts: a refusal is noted and the run goes on
\* with the request that follows the prompt
Decline_GoesOn(mm, prompt, answer) ==
    [mm EXCEPT !.declined = [prompt |-> prompt, answer |-> answer,
                             sent |-> Len(mm.net)],
               !.pc = "baseline"]

\* `if not self._get_user_approval(...): ... return False` at a go/no-go
\* prompt of run_interactive, reached after Len(mm.net) requests
Decline(mm, prompt, answer) ==
    Returned([mm EXCEPT !.declined = [prompt |-> prompt, answer |-> answer,
                                      sent |-> Len(mm.net)]],
             FALSE)

\* the first network call of an attempt
FirstRequestPc(kind) == IF kind = "stored" THEN "csrf" ELSE "send_payload"

\* _attempt_payload / _attempt_stored_payload entered for payload i
BeginAttempt(mm, i) ==
    [mm EXCEPT !.idx = i,
               !.pc = IF mm.interactive THEN "prompt_payload"
                      ELSE FirstRequestPc(mm.kind)]

\* a slip in the payload loop: no break after a success
AttemptReturns_NoBreak(mm, outcome) ==
    LET mv == [mm EXCEPT !.verdicts = Append(@, outcome)]
    IN  IF mm.idx < Len(Payloads(mm.kind)) THEN BeginAttempt(mv, mm.idx + 1)
        ELSE Returned(mv, \E i \in 1..Len(mv.verdicts) : mv.verdicts[i] = "success")

\* a slip in the payload loop: a failed dispatch ends the module
AttemptReturns_AbortOnFailure(mm, outcome) ==
    LET mv == [mm EXCEPT !.verdicts = Append(@, outcome)]
    IN  IF outcome = "success" THEN Returned(mv, TRUE)
        ELSE IF outcome = "request_failed" THEN Returned(mv, FALSE)
        ELSE IF mm.idx < Len(Payloads(mm.kind)) THEN BeginAttempt(mv, mm.idx + 1)
        ELSE Returned(mv, FALSE)

\* a slip in the payload loop: a payload the operator declines ends the
\* module
AttemptReturns_SkipEnds(mm, outcome) ==
    LET mv == [mm EXCEPT !.verdicts = Append(@, outcome)]
    IN  IF outcome = "success" THEN Returned(mv, TRUE)
        ELSE IF outcome = "skipped" THEN Returned(mv, FALSE)
        ELSE IF mm.idx < Len(Payloads(mm.kind)) THEN BeginAttempt(mv, mm.idx + 1)
        ELSE Returned(mv, FALSE)

\* the attempt returns to the loop of run_interactive: a success breaks out
\* and returns True, a failure goes on to the next payload, and the loop's
\* end returns False
AttemptReturns(mm, outcome) ==
    LET mv == [mm EXCEPT !.verdicts = Append(@, outcome)]
    IN  IF outcome = "success" THEN Returned(mv, TRUE)
        ELSE IF mm.idx < Len(Payloads(mm.kind)) THEN BeginAttempt(mv, mm.idx + 1)
        ELSE Returned(mv, FALSE)

\* the module with one more request on the wire
WithRequest(mm, request, via) == [mm EXCEPT !.net = Append(@, Sent(request, via))]

\* the loop of run_interactive entered at the first payload
FirstAttempt(mm) == BeginAttempt(mm, 1)

\* DOMXSSModule.run_interactive after its last prompt: steps 4 to 6 only log,
\* then `return True`
DomCompletes(mm) == Returned(mm, TRUE)

\* a slip after the baseline request: its response is not looked at
AfterBaseline_Unchecked(mm, request, outcome) ==
    LET sent == WithRequest(mm, request, "HTTPClient")
    IN  IF outcome = KeyboardInterrupt THEN Raised(sent)
        ELSE LET got == [sent EXCEPT !.baseline = send(outcome)]
             IN  IF mm.interactive THEN [got EXCEPT !.pc = "prompt_payloads"]
                 ELSE IF mm.kind = "dom" THEN DomCompletes(got)
                 ELSE FirstAttempt(got)

\* run_interactive after the baseline request: a falsy response ends the run
\* with False; otherwise the next prompt follows when interactive, and when
\* not, the payload loop (reflected, stored) or the rest of the
\* demonstration (dom)
AfterBaseline(mm, request, outcome) ==
    LET sent == WithRequest(mm, request, "HTTPClient")
    IN  IF outcome = KeyboardInterrupt THEN Raised(sent)
        ELSE LET response == send(outcome)
                 got == [sent EXCEPT !.baseline = response]
             IN  IF ~Truthy(response) THEN Returned(got, FALSE)
                 ELSE IF mm.interactive THEN [got EXCEPT !.pc = "prompt_payloads"]
                 ELSE IF mm.kind = "dom" THEN DomCompletes(got)
                 ELSE FirstAttempt(got)

\* the first go/no-go prompt of run_interactive (all three modules)
Prompt_examine ==
    /\ m.pc = "prompt_examine"
    /\ \E answer \in Answers :
          LET mm == Asked(m, answer)
          IN  m' = IF get_user_approval(answer)
                   THEN [mm EXCEPT !.pc = "baseline"]
                   ELSE Decline(mm, "examine", answer)
    /\ UNCHANGED notModule

\* ReflectedXSSModule.run_interactive, step 2: the benign request
Reflected_baseline ==
    /\ m.kind = "reflected" /\ m.pc = "baseline"
    /\ \E outcome \in BaselineOutcomes :
          m' = AfterBaseline(m,
                  Request("GET", get_dvwa_url(target, P_xss_r), [name |-> TEST_INPUT]),
                  outcome)
    /\ UNCHANGED notModule

\* StoredXSSModule.run_interactive, step 2: the guestbook is read
Stored_baseline ==
    /\ m.kind = "stored" /\ m.pc = "baseline"
    /\ \E outcome \in BaselineOutcomes :
          m' = AfterBaseline(m,
                  Request("GET", get_dvwa_url(target, P_xss_s), <<>>),
                  outcome)
    /\ UNCHANGED notModule

\* DOMXSSModule.run_interactive, step 2: the page is fetched
Dom_baseline ==
    /\ m.kind = "dom" /\ m.pc = "baseline"
    /\ \E outcome \in BaselineOutcomes :
          m' = AfterBaseline(m,
                  Request("GET", get_dvwa_url(target, P_xss_d), <<>>),
                  outcome)
    /\ UNCHANGED notModule

\* the second go/no-go prompt of run_interactive (all three modules)
Prompt_payloads ==
    /\ m.pc = "prompt_payloads"
    /\ \E answer \in Answers :
          LET mm == Asked(m, answer)
          IN  m' = IF ~get_user_approval(answer) THEN Decline(mm, "payloads", answer)
                   ELSE IF m.kind = "dom" THEN DomCompletes(mm)
                   ELSE FirstAttempt(mm)
    /\ UNCHANGED notModule

\* the per-payload prompt of _attempt_payload / _attempt_stored_payload: a
\* refusal returns False for this payload
Prompt_payload ==
    /\ m.pc = "prompt_payload"
    /\ \E answer \in Answers :
          LET mm == Asked([m EXCEPT !.post = NoResponse, !.resp = NoResponse,
                                    !.token = NoneText], answer)
          IN  m' = IF get_user_approval(answer)
                   THEN [mm EXCEPT !.pc = FirstRequestPc(m.kind)]
                   ELSE AttemptReturns(mm, "skipped")
    /\ UNCHANGED notModule

\* ReflectedXSSModule._attempt_payload: the payload is dispatched and the
\* response classified
Reflected_send_payload ==
    /\ m.kind = "reflected" /\ m.pc = "send_payload"
    /\ LET payload == ReflectedPayloads[m.idx]
           request == Request("GET", get_dvwa_url(target, P_xss_r), [name |-> payload])
           sent == WithRequest(m, request, "HTTPClient")
       IN  \E outcome \in ModuleOutcomes(payload) :
              m' = IF outcome = KeyboardInterrupt THEN Raised(sent)
                   ELSE LET response == send(outcome)
                            got == [sent EXCEPT !.resp = response]
                        IN  IF ~Truthy(response)
                            THEN AttemptReturns(got, "request_failed")
                            ELSE IF check_xss_reflection(response, payload)
                            THEN AttemptReturns(got, "success")
                            ELSE AttemptReturns(got, "failure")
    /\ UNCHANGED notModule

\* StoredXSSModule._attempt_stored_payload: auth.get_csrf_token(url)
Stored_fetch_token ==
    /\ m.kind = "stored" /\ m.pc = "csrf"
    /\ \E r \in TokenOutcomes :
          LET out == get_csrf_token(auth, get_dvwa_url(target, P_xss_s), r)
              sent == [m EXCEPT !.net = @ \o [i \in 1..Len(out.net) |->
                                                Sent(out.net[i], "session")],
                                !.post = NoResponse, !.resp = NoResponse]
          IN  m' = IF out.raised THEN Raised(sent)
                   ELSE [sent EXCEPT !.token = out.ret, !.pc = "post"]
    /\ UNCHANGED notModule

\* the form _attempt_stored_payload submits for `payload`
form_data(payload, csrf_token) ==
    LET ua_string == S_user_agent
        annotated_payload == payload \o S_ua_open \o ua_string \o S_ua_close
    IN  WithToken([txtName |-> S_author, mtxMessage |-> annotated_payload,
                   btnSign |-> S_sign], csrf_token)

\* StoredXSSModule._attempt_stored_payload, step A: the form is posted
Stored_post ==
    /\ m.kind = "stored" /\ m.pc = "post"
    /\ LET payload == StoredPayloads[m.idx]
           request == Request("POST", get_dvwa_url(target, P_xss_s),
                              form_data(payload, m.token))
           sent == WithRequest(m, request, "HTTPClient")
       IN  \E outcome \in ModuleOutcomes(payload) :
              m' = IF outcome = KeyboardInterrupt THEN Raised(sent)
                   ELSE LET response == send(outcome)
                            got == [sent EXCEPT !.post = response]
                        IN  IF ~Truthy(response)
                            THEN AttemptReturns(got, "request_failed")
                            ELSE [got EXCEPT !.pc = "get"]
    /\ UNCHANGED notModule

\* the verdict of _attempt_stored_payload once the page has been re-fetched
StoredVerdict(response, payload) ==
    IF Contains(response.text, payload) THEN "success" ELSE "failure"

\* StoredXSSModule._attempt_stored_payload, step B: the page is fetched again
\* and searched for the payload
Stored_get ==
    /\ m.kind = "stored" /\ m.pc = "get"
    /\ LET payload == StoredPayloads[m.idx]
           request == Request("GET", get_dvwa_url(target, P_xss_s), <<>>)
           sent == WithRequest(m, request, "HTTPClient")
       IN  \E outcome \in ModuleOutcomes(payload) :
              m' = IF outcome = KeyboardInterrupt THEN Raised(sent)
                   ELSE LET response == send(outcome)
                            got == [sent EXCEPT !.resp = response]
                        IN  IF ~Truthy(response)
                            THEN AttemptReturns(got, "request_failed")
                            ELSE AttemptReturns(got,
                                    StoredVerdict(response, payload))
    /\ UNCHANGED notModule

NextModule ==
    \/ Prompt_examine
    \/ Reflected_baseline
    \/ Stored_baseline
    \/ Dom_baseline
    \/ Prompt_payloads
    \/ Prompt_payload
    \/ Reflected_send_payload
    \/ Stored_fetch_token
    \/ Stored_post
    \/ Stored_get

(***************************************************************************)
(* The orchestrator (cli.py main, utils/validators.py)                     *)
(*                                                                         *)
(* main() is one sequential run; each action runs it from one blocking     *)
(* point (the authorization prompt, a network call, a module) to the next. *)
(* The command line is fixed before main() starts; the model picks each    *)
(* option where main() first reads it.                                     *)
(***************************************************************************)
\* `return value` in main()
ReturnValue(value) == [value |-> value]

\* main() left by an exception raised outside its try block
Uncaught == [raised |-> "OSError"]

\* DualLogger(log_dir): the log files are open
DualLogger == [state |-> "open", closed |-> 0]

\* DualLogger.close
close(l) == [state |-> "closed", closed |-> l.closed + 1]

\* what the operator can type at the authorization prompt, or Ctrl+C
AuthorizationAnswers == {"I AGREE", "i agree", "KeyboardInterrupt"}

\* confirm_authorization: only the exact text confirms; KeyboardInterrupt and
\* EOFError are caught and count as a refusal
confirm_authorization(answer) == answer = "I AGREE"

\* --host on the command line
MainHosts == {H_localhost, H_8_8_8_8}

\* --security-level on the command line (None when absent)
SecurityLevelArgs == {NoneText, L_high}

\* --mode on the command line
Modes == {"reflected", "stored", "dom", "all"}

\* what requests.get(base_url) can come back with in check_target_reachability
ReachabilityOutcomes ==
    {Response(200, <<>>), Response(404, <<>>), RequestException, KeyboardInterrupt}

\* check_target_reachability: True exactly on status 200; the
\* RequestException family is caught
check_target_reachability(r) ==
    IF r = RequestException THEN FALSE ELSE r.status_code = 200

\* what a preflight leaves behind: its verdict and the requests it issued
Preflight(ok, sent, raised) == [ok |-> ok, net |-> sent, raised |-> raised]

\* a slip in preflight_check: the target is probed before the safety gate
preflight_check_ProbeFirst(t, r) ==
    LET probe == <<Request("GET", base_url(t), <<>>)>>
    IN  IF r = KeyboardInterrupt THEN Preflight(FALSE, probe, TRUE)
        ELSE IF ~check_target_reachability(r) THEN Preflight(FALSE, probe, FALSE)
        ELSE Preflight(is_safe_target(t), probe, FALSE)

\* preflight_check: the safety gate first, and only then the reachability
\* probe; r answers the probe
preflight_check(t, r) ==
    LET probe == <<Request("GET", base_url(t), <<>>)>>
    IN  IF ~is_safe_target(t) THEN Preflight(FALSE, <<>>, FALSE)
        ELSE IF r = KeyboardInterrupt THEN Preflight(FALSE, probe, TRUE)
        ELSE Preflight(check_target_reachability(r), probe, FALSE)

\* the pages the server can answer the presence check with
PresenceOutcomes(base) ==
    LET login_page == base \o S_slash_login_php
        no == <<FALSE, <<>>>>
    IN  { Page(200, login_page, <<TRUE, S_token_a>>, no, <<>>, TRUE, S_version),
          Page(200, login_page, no, no, <<>>, FALSE, <<>>),
          RequestException, KeyboardInterrupt }

\* the pages the server can answer the GET of login() with
LoginGetOutcomes(base) ==
    LET login_page == base \o S_slash_login_php
        no == <<FALSE, <<>>>>
    IN  { Page(200, login_page, <<TRUE, S_token_a>>, no, <<>>, TRUE, S_version),
          Page(500, login_page, no, no, <<>>, FALSE, <<>>) }

\* the pages the server can answer the POST of login() with
LoginPostOutcomes(base) ==
    LET no == <<FALSE, <<>>>>
    IN  { Page(200, base \o S_index_php, no, no, <<>>, TRUE, S_version),
          Page(200, base \o S_slash_login_php, no, no, <<>>, TRUE, <<>>),
          KeyboardInterrupt }

\* the pages the server can answer detect_security_level with
DetectOutcomes(base) ==
    LET security == base \o S_slash_security_php
        no == <<FALSE, <<>>>>
    IN  { Page(200, security, <<TRUE, S_token_b>>, <<TRUE, L_Low>>, L_low, FALSE, <<>>),
          KeyboardInterrupt }

\* the pages the server can answer the GET of set_security_level with
SetLevelGetOutcomes(base) ==
    LET no == <<FALSE, <<>>>>
    IN  { Page(200, base \o S_slash_security_php, <<TRUE, S_token_b>>, no, <<>>,
               FALSE, <<>>) }

\* the pages the server can answer the POST of set_security_level with
SetLevelPostOutcomes(base) ==
    LET security == base \o S_slash_security_php
        no == <<FALSE, <<>>>>
    IN  { Page(200, security, no, no, <<>>, FALSE, <<>>),
          Page(500, security, no, no, <<>>, FALSE, <<>>),
          KeyboardInterrupt }

\* the requests of `sent` on the wire, issued by `via`
OnWire(sent, via) == [i \in 1..Len(sent) |-> Sent(sent[i], via)]

\* main() returns `value`: the finally clause closes the logger
Return(value) ==
    /\ pc' = "done"
    /\ mainRet' = ReturnValue(value)
    /\ logger' = close(logger)

\* main() goes on to the phase `next`
Goto(next) ==
    /\ pc' = next
    /\ UNCHANGED <<mainRet, logger>>

\* the operator has pressed Ctrl+C (when `now`), or had before
Interrupt(now) ==
    process' = [process EXCEPT !.interrupted = @ \/ now]

\* a call made by main() for `phase` has returned `ok`, or was left by a
\* KeyboardInterrupt when `raised`; `interrupted` when Ctrl+C was pressed
\* during it
Did(phase, ok, raised, interrupted) ==
    process' = [process EXCEPT
                    !.interrupted = @ \/ interrupted,
                    !.trace = IF raised THEN @
                              ELSE Append(@, [phase |-> phase, ok |-> ok])]

\* the handler of `except KeyboardInterrupt` when raised, `otherwise` when not
Continue(raised, otherwise) ==
    IF raised THEN Return(130) ELSE otherwise

\* main(), lines 124-134: the banner and the authorization prompt, unless
\* --skip-banner
Main_authorize ==
    /\ pc = "start"
    /\ \E skip_banner \in BOOLEAN, answer \in AuthorizationAnswers :
          /\ Interrupt(~skip_banner /\ answer = "KeyboardInterrupt")
          /\ IF skip_banner \/ confirm_authorization(answer)
             THEN pc' = "configure" /\ UNCHANGED mainRet
             ELSE pc' = "done" /\ mainRet' = ReturnValue(1)
    /\ UNCHANGED <<target, tOp, auth, m, args, current_level, modules_run,
                   modules_succeeded, logger, wire>>
    /\ UNCHANGED notMain

\* main(), lines 136-144: the TargetConfig, --confirm-target, the DualLogger
\* and the BurpRequestRecorder, all created before the try block; either
\* constructor can fail on the log directory
Main_configure ==
    /\ pc = "configure"
    /\ \E host \in MainHosts, confirm \in BOOLEAN,
          created \in {"both", "logger_only", "neither"} :
          /\ target' = IF confirm THEN confirm_target(TargetConfig(host, 80, FALSE))
                       ELSE TargetConfig(host, 80, FALSE)
          /\ tOp' = IF confirm THEN "confirm_target" ELSE "init"
          /\ logger' = IF created = "neither" THEN logger ELSE DualLogger
          /\ IF created = "both"
             THEN pc' = "preflight" /\ UNCHANGED mainRet
             ELSE pc' = "done" /\ mainRet' = Uncaught
    /\ UNCHANGED <<auth, m, args, current_level, modules_run, modules_succeeded, wire,
                   process>>
    /\ UNCHANGED notMain

\* main(), lines 146-164: preflight_check
Main_preflight ==
    /\ pc = "preflight"
    /\ \E r \in ReachabilityOutcomes :
          LET out == preflight_check(target, r)
          IN  /\ wire' = wire \o OnWire(out.net, "requests")
              /\ Did("preflight", out.ok, out.raised, out.raised)
              /\ Continue(out.raised,
                          IF out.ok THEN Goto("presence") ELSE Return(1))
    /\ UNCHANGED <<target, tOp, auth, m, args, current_level, modules_run,
                   modules_succeeded>>
    /\ UNCHANGED notMain

\* main(), lines 166-180: the authenticator is created and the target must
\* look like DVWA
Main_presence ==
    /\ pc = "presence"
    /\ \E r \in PresenceOutcomes(base_url(target)) :
          LET out == verify_dvwa_presence(DVWAAuthenticator(base_url(target)), r)
          IN  /\ auth' = out.auth
              /\ wire' = wire \o OnWire(out.net, "session")
              /\ Did("presence", out.ret[1], out.raised, out.raised)
              /\ Continue(out.raised,
                          IF out.ret[1] THEN Goto("login") ELSE Return(1))
    /\ UNCHANGED <<target, tOp, m, args, current_level, modules_run, modules_succeeded>>
    /\ UNCHANGED notMain

\* main(), lines 182-188: login with --username / --password
Main_login ==
    /\ pc = "login"
    /\ \E r1 \in LoginGetOutcomes(auth.base_url), r2 \in LoginPostOutcomes(auth.base_url) :
          LET out == login(auth, S_admin, S_password, r1, r2)
          IN  /\ auth' = out.auth
              /\ wire' = wire \o OnWire(out.net, "session")
              /\ Did("login", out.ret, out.raised, out.raised)
              /\ Continue(out.raised,
                          IF out.ret THEN Goto("detect") ELSE Return(1))
    /\ UNCHANGED <<target, tOp, m, args, current_level, modules_run, modules_succeeded>>
    /\ UNCHANGED notMain

\* main(), lines 190-193: the current security level is read
Main_detect ==
    /\ pc = "detect"
    /\ \E r \in DetectOutcomes(auth.base_url) :
          LET out == detect_security_level(auth, r)
          IN  /\ auth' = out.auth
              /\ wire' = wire \o OnWire(out.net, "session")
              /\ current_level' = IF out.raised THEN current_level ELSE out.ret
              /\ Did("detect", out.ret # NoneText, out.raised, out.raised)
              /\ Continue(out.raised, Goto("set_level"))
    /\ UNCHANGED <<target, tOp, m, args, modules_run, modules_succeeded>>
    /\ UNCHANGED notMain

\* main(), lines 195-200: --security-level, when given and different from
\* the level detected, is set; a failure to set it is only reported
Main_set_level ==
    /\ pc = "set_level"
    /\ \E security_level \in SecurityLevelArgs,
          r1 \in SetLevelGetOutcomes(auth.base_url),
          r2 \in SetLevelPostOutcomes(auth.base_url) :
          IF security_level # NoneText /\ security_level # current_level
          THEN LET out == set_security_level(auth, security_level, r1, r2)
               IN  /\ auth' = out.auth
                   /\ wire' = wire \o OnWire(out.net, "session")
                   /\ Did("set_level", out.ret, out.raised, out.raised)
                   /\ Continue(out.raised, Goto("modules"))
          ELSE /\ UNCHANGED <<auth, wire, process>>
               /\ Goto("modules")
    /\ UNCHANGED <<target, tOp, m, args, current_level, modules_run, modules_succeeded>>
    /\ UNCHANGED notMain

\* main(), lines 202-212: the HTTPClient is created; --mode and
\* --no-interactive are read
Main_modules ==
    /\ pc = "modules"
    /\ \E mode \in Modes, no_interactive \in BOOLEAN :
          args' = [mode |-> mode, no_interactive |-> no_interactive]
    /\ modules_run' = <<>>
    /\ modules_succeeded' = <<>>
    /\ Goto("reflected")
    /\ UNCHANGED <<target, tOp, auth, m, current_level, wire, process>>
    /\ UNCHANGED notMain

\* the name main() lists a module under
ModuleName(kind) ==
    IF kind = "reflected" THEN "Reflected XSS"
    ELSE IF kind = "stored" THEN "Stored XSS"
    ELSE "DOM-Based XSS"

\* a slip in the sequence of modules: the stored module is passed over
After_PastStored(kind) ==
    IF kind = "reflected" THEN "dom"
    ELSE IF kind = "stored" THEN "dom"
    ELSE "summary"

\* what follows the module `kind` in main()
After(kind) ==
    IF kind = "reflected" THEN "stored"
    ELSE IF kind = "stored" THEN "dom"
    ELSE "summary"

\* main(), lines 214-220, 223-229, 232-238: `if args.mode in [kind, 'all']`
\* the module is created, listed in modules_run and entered
Main_enter_module ==
    /\ pc \in {"reflected", "stored", "dom"}
    /\ IF args.mode \in {pc, "all"}
       THEN /\ m' = Module(pc, ~args.no_interactive)
            /\ modules_run' = Append(modules_run, ModuleName(pc))
            /\ Goto("in_module")
       ELSE /\ UNCHANGED <<m, modules_run>>
            /\ Goto(After(pc))
    /\ UNCHANGED <<target, tOp, auth, args, current_level, modules_succeeded, wire,
                   process>>
    /\ UNCHANGED notMain

\* main(), lines 220-221, 229-230, 238-239: run_interactive has returned, or
\* a KeyboardInterrupt has left it; the module object is not used again
Main_leave_module ==
    /\ pc = "in_module"
    /\ m.pc \in {"returned", "raised"}
    /\ modules_succeeded' = IF m.pc = "returned" /\ m.ret
                            THEN Append(modules_succeeded, ModuleName(m.kind))
                            ELSE modules_succeeded
    /\ m' = NoModule
    /\ Did(m.kind, m.ret, m.pc = "raised", m.interrupted)
    /\ Continue(m.pc = "raised", Goto(After(m.kind)))
    /\ UNCHANGED <<target, tOp, auth, args, current_level, modules_run, wire>>
    /\ UNCHANGED notMain

\* main(), lines 241-251: the session summary, then `return 0`
Main_summary ==
    /\ pc = "summary"
    /\ process' = [process EXCEPT !.summarised = TRUE]
    /\ Return(0)
    /\ UNCHANGED <<target, tOp, auth, m, args, current_level, modules_run,
                   modules_succeeded, wire>>
    /\ UNCHANGED notMain

\* the scripts a run can be started from
EntryPoints == {"cli.py", "run.py"}

\* the exit status of the process: cli.py ends in sys.exit(main()), run.py
\* in a bare cli.main(), whose value is dropped; an exception that leaves
\* main() ends either with a traceback and status 1
ExitStatus(entry, returned) ==
    IF returned = Uncaught THEN 1
    ELSE IF entry = "cli.py" THEN returned.value
    ELSE 0

\* cli.py lines 269-270, run.py lines 18-19: main() has returned and the
\* interpreter exits
Main_exit ==
    /\ pc = "done"
    /\ ~process.exited
    /\ \E entry \in EntryPoints :
          process' = [process EXCEPT !.exited = TRUE, !.entry = entry,
                                     !.status = ExitStatus(entry, mainRet)]
    /\ UNCHANGED <<target, tOp, auth, m, pc, args, current_level, modules_run,
                   modules_succeeded, logger, wire, mainRet>>
    /\ UNCHANGED notMain

NextMain ==
    \/ Main_authorize
    \/ Main_configure
    \/ Main_preflight
    \/ Main_presence
    \/ Main_login
    \/ Main_detect
    \/ Main_set_level
    \/ Main_modules
    \/ Main_enter_module
    \/ Main_leave_module
    \/ Main_summary
    \/ Main_exit
    \/ NextModule

(***************************************************************************)
(* The objects a specification does not exercise stay as constructed       *)
(***************************************************************************)
TargetIdle ==
    /\ target = TargetConfig(H_localhost, 80, FALSE)
    /\ tOp = "init" /\ tArg = <<>> /\ tRet = None

ClassifierIdle ==
    /\ cResp = NoResponse /\ cPayload = <<>> /\ cOp = "init" /\ cRet = FALSE

AuthIdle ==
    /\ auth = DVWAAuthenticator(S_base_localhost)
    /\ aOp = "init" /\ aRet = None /\ aNet = <<>>
    /\ aArg = <<>> /\ aResp = <<>>

DispatcherIdle ==
    http = NoCall

ModuleIdle ==
    m = NoModule

MainIdle ==
    /\ pc = "idle" /\ args = NoArgs /\ current_level = NoneText
    /\ modules_run = <<>> /\ modules_succeeded = <<>>
    /\ logger = NoLogger /\ wire = <<>> /\ mainRet = NoReturn
    /\ process = Running

(***************************************************************************)
(* The target descriptor under any sequence of calls                       *)
(***************************************************************************)
InitTarget ==
    /\ target \in {TargetConfig(h, p, s) : h \in Hosts, p \in Ports, s \in BOOLEAN}
    /\ tOp = "init"
    /\ tArg = <<>>
    /\ tRet = None
    /\ ClassifierIdle
    /\ AuthIdle
    /\ DispatcherIdle
    /\ ModuleIdle
    /\ MainIdle

Call_is_safe_target ==
    /\ tOp' = "is_safe_target"
    /\ tArg' = <<>>
    /\ tRet' = is_safe_target(target)
    /\ UNCHANGED target
    /\ UNCHANGED notTarget

Call_base_url ==
    /\ tOp' = "base_url"
    /\ tArg' = <<>>
    /\ tRet' = base_url(target)
    /\ UNCHANGED target
    /\ UNCHANGED notTarget

Call_get_dvwa_url ==
    \E path \in Paths :
        /\ tOp' = "get_dvwa_url"
        /\ tArg' = path
        /\ tRet' = get_dvwa_url(target, path)
        /\ UNCHANGED target
        /\ UNCHANGED notTarget
    /\ UNCHANGED notTarget

Call_confirm_target ==
    /\ tOp' = "confirm_target"
    /\ tArg' = <<>>
    /\ tRet' = None
    /\ target' = confirm_target(target)
    /\ UNCHANGED notTarget

NextTarget ==
    \/ Call_is_safe_target
    \/ Call_base_url
    \/ Call_get_dvwa_url
    \/ Call_confirm_target

SpecTarget == InitTarget /\ [][NextTarget]_vars

(***************************************************************************)
(* The classifier on every response of a bounded set                       *)
(***************************************************************************)
ClassifierPayloads ==
    {ReflectedPayloads[i] : i \in 1..3} \cup {StoredPayloads[i] : i \in 1..3}
        \cup {TEST_INPUT}

\* what a page can carry of a payload: the literal text, an encoded variant,
\* both, a truncated echo, or nothing
Echoes(payload) ==
    { payload, HtmlEncoded(payload), UrlEncoded(payload),
      HtmlEncoded(payload) \o payload, UrlEncoded(payload) \o <<" ">> \o payload,
      SubSeq(payload, 1, Len(payload) - 1), <<>> }

Bodies(payload) ==
    Echoes(payload) \cup {S_pre_open \o e \o S_pre_close : e \in Echoes(payload)}

Responses(payload) ==
    {NoResponse} \cup {Response(st, b) : st \in StatusCodes, b \in Bodies(payload)}

InitClassifier ==
    /\ cPayload \in ClassifierPayloads
    /\ cResp \in Responses(cPayload)
    /\ cOp = "init"
    /\ cRet = FALSE
    /\ TargetIdle
    /\ AuthIdle
    /\ DispatcherIdle
    /\ ModuleIdle
    /\ MainIdle

Call_check_xss_reflection ==
    /\ cOp = "init"
    /\ cOp' = "check_xss_reflection"
    /\ cRet' = check_xss_reflection(cResp, cPayload)
    /\ UNCHANGED <<cResp, cPayload>>
    /\ UNCHANGED notCls

NextClassifier == Call_check_xss_reflection

SpecClassifier == InitClassifier /\ [][NextClassifier]_vars

(***************************************************************************)
(* The authenticator under any sequence of calls                           *)
(***************************************************************************)
Usernames == {S_admin}
Passwords == {S_password, S_wrong}
LevelArgs == {L_low, L_High, L_impossible, L_extreme, <<>>}
TokenUrls == {S_base_localhost \o <<"/">> \o P_xss_s}

InitAuth ==
    /\ auth = DVWAAuthenticator(S_base_localhost)
    /\ aOp = "init" /\ aRet = None /\ aNet = <<>>
    /\ aArg = <<>> /\ aResp = <<>>
    /\ TargetIdle
    /\ ClassifierIdle
    /\ DispatcherIdle
    /\ ModuleIdle
    /\ MainIdle

\* the effect of one call on the authenticator's variables: of the answers
\* held ready, those to the requests it issued are consumed
Returns(op, arguments, answers, out) ==
    /\ aOp' = op
    /\ aArg' = arguments
    /\ auth' = out.auth
    /\ aRet' = out.ret
    /\ aNet' = out.net
    /\ aResp' = SubSeq(answers, 1, Len(out.net))
    /\ UNCHANGED notAuth

Call_login ==
    \E u \in Usernames, p \in Passwords, r1 \in Outcomes, r2 \in Outcomes :
        Returns("login", <<u, p>>, <<r1, r2>>, login(auth, u, p, r1, r2))

Call_detect_security_level ==
    \E r \in Outcomes :
        Returns("detect_security_level", <<>>, <<r>>, detect_security_level(auth, r))

Call_set_security_level ==
    \E level \in LevelArgs, r1 \in Outcomes, r2 \in Outcomes :
        Returns("set_security_level", <<level>>, <<r1, r2>>,
                set_security_level(auth, level, r1, r2))

Call_get_csrf_token ==
    \E url \in TokenUrls, r \in Outcomes :
        Returns("get_csrf_token", <<url>>, <<r>>, get_csrf_token(auth, url, r))

Call_verify_dvwa_presence ==
    \E r \in Outcomes :
        Returns("verify_dvwa_presence", <<>>, <<r>>, verify_dvwa_presence(auth, r))

Call_is_authenticated ==
    Returns("is_authenticated", <<>>, <<>>, Outcome(auth, is_authenticated(auth), <<>>))

NextAuth ==
    \/ Call_login
    \/ Call_detect_security_level
    \/ Call_set_security_level
    \/ Call_get_csrf_token
    \/ Call_verify_dvwa_presence
    \/ Call_is_authenticated

SpecAuth == InitAuth /\ [][NextAuth]_vars

(***************************************************************************)
(* One run of one scenario module, on an authenticated session             *)
(***************************************************************************)
ModuleKinds == {"reflected", "stored", "dom"}

InitModules ==
    /\ m \in {Module(kind, interactive) : kind \in ModuleKinds, interactive \in BOOLEAN}
    /\ TargetIdle
    /\ ClassifierIdle
    /\ auth = [DVWAAuthenticator(S_base_localhost) EXCEPT !.logged_in = TRUE]
    /\ aOp = "init" /\ aRet = None /\ aNet = <<>>
    /\ aArg = <<>> /\ aResp = <<>>
    /\ DispatcherIdle
    /\ MainIdle

SpecModules == InitModules /\ [][NextModule]_vars

(***************************************************************************)
(* One run of main()                                                       *)
(***************************************************************************)
\* main() entered: no object has been constructed yet
InitMain ==
    /\ pc = "start" /\ args = NoArgs /\ current_level = NoneText
    /\ modules_run = <<>> /\ modules_succeeded = <<>>
    /\ logger = NoLogger /\ wire = <<>> /\ mainRet = NoReturn
    /\ process = Running
    /\ target = TargetConfig(H_localhost, 80, FALSE)
    /\ tOp = "unbuilt" /\ tArg = <<>> /\ tRet = None
    /\ auth = DVWAAuthenticator(S_base_localhost)
    /\ aOp = "init" /\ aRet = None /\ aNet = <<>>
    /\ aArg = <<>> /\ aResp = <<>>
    /\ ClassifierIdle
    /\ DispatcherIdle
    /\ ModuleIdle

SpecMain == InitMain /\ [][NextMain]_vars

(***************************************************************************)
(* The dispatcher under any sequence of get and post calls                 *)
(***************************************************************************)
\* the URLs asked of the dispatcher
DispatchUrls ==
    {S_base_localhost \o <<"/">> \o p : p \in {P_xss_r, P_xss_s, P_xss_d}}

\* the query parameters or form fields handed to it (<<>> for none)
DispatchFields ==
    {<<>>, [name |-> TEST_INPUT], [name |-> PAYLOAD_BASIC_ALERT],
     [txtName |-> S_author, mtxMessage |-> STORED_SCRIPT, btnSign |-> S_sign]}

\* what session.send can come back with
DispatchOutcomes ==
    {Response(st, Wrap(TEST_INPUT)) : st \in StatusCodes}
        \cup {RequestException, KeyboardInterrupt}

InitDispatcher ==
    /\ \E request_recorder \in BOOLEAN : http = HTTPClient(request_recorder)
    /\ TargetIdle
    /\ ClassifierIdle
    /\ AuthIdle
    /\ ModuleIdle
    /\ MainIdle

\* `written`: whether the recorder, when one is configured, could write its
\* entry. The effect of one call on the dispatcher's variable: the client keeps its
\* recorder, and the call's request is the one its first event logs
Dispatches(op, written, outcome, out) ==
    /\ http' = [op |-> op, request |-> out.events[1].request,
             recorder |-> http.recorder, written |-> written,
             outcome |-> outcome, ret |-> out.ret,
             events |-> out.events, raised |-> out.raised]
    /\ UNCHANGED notDispatch

Call_get ==
    \E url \in DispatchUrls, params \in DispatchFields, written \in BOOLEAN,
       outcome \in DispatchOutcomes :
        Dispatches("get", written, outcome,
                   HTTPClient_get(url, params, http.recorder, written, outcome))

Call_post ==
    \E url \in DispatchUrls, data \in DispatchFields, written \in BOOLEAN,
       outcome \in DispatchOutcomes :
        Dispatches("post", written, outcome,
                   HTTPClient_post(url, data, http.recorder, written, outcome))

NextDispatcher ==
    \/ Call_get
    \/ Call_post

SpecDispatcher == InitDispatcher /\ [][NextDispatcher]_vars
(***************************************************************************)
(* verify_dvwa_presence on login pages given by their text                 *)
(***************************************************************************)
\* how the body of the answer begins
PresenceHeads ==
    {<<>>,
     <<"D","V","W","A"," ">>,
     <<"D","a","m","n"," ","V","u","l","n","e","r","a","b","l","e"," ","W","e","b"," ","A","p","p","l","i","c","a","t","i","o","n"," ">>,
     <<"d","v","w","a"," ">>}

\* how it goes on
PresenceTails ==
    {<<>>,
     <<"v","1",".","1","0">>,
     <<"v",".">>,
     <<"v","1",".">>,
     <<"v","2">>,
     <<"v","u","l","n","e","r","a","b","l","e">>,
     <<"d","e","v",".","v","1",".","1","0">>,
     <<"v","1",".",".","2"," ","b","e","t","a">>}

\* what the server can answer the GET of login.php with
PresenceResponses ==
    { Response(st, h \o t) : st \in StatusCodes, h \in PresenceHeads, t \in PresenceTails }
        \cup {RequestException}

InitPresence ==
    /\ auth = DVWAAuthenticator(S_base_localhost)
    /\ aOp = "init" /\ aRet = None /\ aNet = <<>>
    /\ aArg = <<>> /\ aResp = <<>>
    /\ TargetIdle
    /\ ClassifierIdle
    /\ DispatcherIdle
    /\ ModuleIdle
    /\ MainIdle

\* verify_dvwa_presence() answered by `response`
Call_verify_on_text ==
    \E response \in PresenceResponses :
        LET r == IF response = RequestException THEN RequestException
                 ELSE LoginPage(response, auth.base_url \o S_slash_login_php)
            out == verify_dvwa_presence(auth, r)
        IN  /\ aOp' = "verify_dvwa_presence"
            /\ aArg' = <<>>
            /\ auth' = out.auth
            /\ aRet' = out.ret
            /\ aNet' = out.net
            /\ aResp' = [i \in 1..Len(out.net) |-> response]
            /\ UNCHANGED notAuth

NextPresence ==
    \/ Call_verify_on_text

SpecPresence == InitPresence /\ [][NextPresence]_vars
(***************************************************************************)
(* Claims about the target descriptor (checked under SpecTarget)           *)
(***************************************************************************)
\* equality of two texts up to the case of ASCII letters
EqualsIgnoringCase(a, b) ==
    /\ Len(a) = Len(b)
    /\ \A i \in 1..Len(a) :
          \/ a[i] = b[i]
          \/ \E k \in 1..26 : {a[i], b[i]} = {UpperChars[k], LowerChars[k]}

\* the private IPv4 prefixes: 10., 172.16. to 172.31., 192.168.
PrivatePrefixes ==
    {<<"1","0",".">>, <<"1","9","2",".","1","6","8",".">>}
        \cup {<<"1","7","2",".">> \o IntToStr(n) \o <<".">> : n \in 16..31}

SafeBySpec(t) ==
    \/ \E h \in ALLOWED_HOSTS : EqualsIgnoringCase(t.host, h)
    \/ \E p \in PrivatePrefixes : StartsWith(t.host, p)
    \/ t.confirmed

\* C2: is_safe_target() is true iff the host equals, case-insensitively, one of
\* localhost / 127.0.0.1 / ::1 / 0.0.0.0, or starts with a private IPv4 prefix,
\* or the target is confirmed; so it is true for localhost, 127.0.0.1, 10.0.0.1
\* and 192.168.1.100 with no confirm_target() call.
C2_IsSafeTargetIff ==
    tOp = "is_safe_target" =>
        /\ tRet = SafeBySpec(target)
        /\ (target.host \in {H_localhost, H_127_0_0_1, H_10_0_0_1, H_192_168_1_100}
              => tRet = TRUE)

C2_Witness ==
    /\ tOp = "is_safe_target"
    /\ target.host = H_192_168_1_100
    /\ ~target.confirmed
    /\ tRet = TRUE

\* C3: _confirmed is false after construction, changes only in confirm_target and
\* only from false to true, and never returns to false; for the public host
\* 8.8.8.8 is_safe_target() is false before confirm_target() and true after it.
C3_ConfirmedOnlyByConfirm ==
    /\ [](tOp = "init" => ~target.confirmed)
    /\ [][target'.confirmed # target.confirmed
            => tOp' = "confirm_target" /\ ~target.confirmed /\ target'.confirmed]_vars
    /\ [][target.confirmed => target'.confirmed]_vars
    /\ [](tOp = "confirm_target" => target.confirmed)
    /\ [](tOp = "is_safe_target" /\ target.host = H_8_8_8_8
            => tRet = target.confirmed)

C3_Witness ==
    /\ tOp = "is_safe_target"
    /\ target.host = H_8_8_8_8
    /\ target.confirmed
    /\ tRet = TRUE

\* scheme://host, with :port appended unless the port is the scheme's default
BaseUrlBySpec(t) ==
    LET scheme == IF t.use_https THEN S_https ELSE S_http
        default == IF t.use_https THEN 443 ELSE 80
    IN  scheme \o S_sep \o t.host
            \o (IF t.port = default THEN <<>> ELSE <<":">> \o IntToStr(t.port))

\* C4: base_url is scheme://host when the port is the default of the scheme in
\* use (80 for http, 443 for https) and scheme://host:port for every other
\* (port, scheme) combination, including 443 over http and 80 over https.
C4_BaseUrlOmitsOnlySchemeDefault ==
    tOp = "base_url" => tRet = BaseUrlBySpec(target)

\* C5: for a path p that does not start with '/', get_dvwa_url(p) and
\* get_dvwa_url('/' + p) are equal, and both are base_url, one '/', then p
\* unchanged.
C5_ResolvePathLeadingSlash ==
    tOp = "get_dvwa_url" =>
        /\ (At(tArg, 1) # "/" =>
              /\ tRet = base_url(target) \o <<"/">> \o tArg
              /\ get_dvwa_url(target, <<"/">> \o tArg) = tRet)
        /\ (At(tArg, 1) = "/" /\ At(tArg, 2) # "/" =>
              tRet = base_url(target) \o <<"/">> \o Tail(tArg))

C5_Witness ==
    /\ tOp = "get_dvwa_url"
    /\ tArg = P_slash_xss_r
    /\ target.host = H_localhost /\ target.port = 80 /\ ~target.use_https
    /\ tRet = S_http \o S_sep \o H_localhost \o <<"/">> \o P_xss_r

(***************************************************************************)
(* Claims about the classifier (checked under SpecClassifier)              *)
(***************************************************************************)
\* C6: check_xss_reflection returns false for a response of none; for every
\* response that is not none, whatever its status code, it returns true iff the
\* literal payload is a substring of the body (an encoded variant alone, or
\* nothing, gives false; the literal beside an encoded variant gives true).
C6_ReflectionIffLiteralInBody ==
    cOp = "check_xss_reflection" =>
        /\ (cResp = NoResponse => cRet = FALSE)
        /\ (cResp # NoResponse => cRet = Contains(cResp.text, cPayload))

(***************************************************************************)
(* Claims about the authenticator (checked under SpecAuth)                 *)
(***************************************************************************)
\* C10: the authenticator starts Unauthenticated, becomes Authenticated only
\* as the effect of a login call that returns true, and once Authenticated
\* never returns to Unauthenticated, not even after a login call that fails.
C10_AuthenticatedOnlyByLogin ==
    /\ [](aOp = "init" => ~auth.logged_in)
    /\ [][auth'.logged_in # auth.logged_in
            => aOp' = "login" /\ aRet' = TRUE /\ ~auth.logged_in /\ auth'.logged_in]_vars
    /\ [][auth.logged_in => auth'.logged_in]_vars
    /\ [](aOp = "is_authenticated" => aRet = auth.logged_in)

C10_Witness ==
    /\ aOp = "login"
    /\ aRet = FALSE
    /\ auth.logged_in

\* the answer is a page, not a transport failure
IsPage(r) == r # RequestException /\ r # KeyboardInterrupt

\* the page holds a user_token input with a non-empty value
TokenOn(page) == page.has_token_input /\ page.token_value # <<>>

\* the URL of the login page of this authenticator
LoginUrl == auth.base_url \o S_slash_login_php

C12_FailedLoginStaysUnauthenticated ==
    /\ [][(aOp' = "login" /\ Len(aNet') = 2 /\ IsPage(aResp'[2])
             /\ aResp'[2].url = auth.base_url \o S_slash_login_php)
          => (aRet' = FALSE /\ (~auth.logged_in => ~auth'.logged_in))]_vars
    /\ [][(aOp' = "detect_security_level" /\ ~auth.logged_in)
          => (aRet' = NoneText /\ aNet' = <<>> /\ auth' = auth)]_vars

\* a login that ended on the login page with status 200, on an authenticator
\* that is Unauthenticated
C12_Witness ==
    /\ aOp = "login" /\ aRet = FALSE
    /\ Len(aNet) = 2
    /\ IsPage(aResp[2])
    /\ aResp[2].url = LoginUrl /\ aResp[2].status_code = 200
    /\ ~auth.logged_in


\* the transport failed at one of the requests the last call issued
TransportFailed(answers) ==
    \E i \in 1..Len(answers) : answers[i] = RequestException

\* the failure value of each operation that performs network I/O
FailureValue(op, ret) ==
    CASE op \in {"login", "set_security_level"} -> ret = FALSE
      [] op \in {"detect_security_level", "get_csrf_token"} -> ret = NoneText
      [] op = "verify_dvwa_presence" -> Len(ret) = 2 /\ ret[1] = FALSE
      [] OTHER -> FALSE

\* C14: a call of verify_dvwa_presence, login, detect_security_level,
\* set_security_level or get_csrf_token during which a request fails at the
\* transport does not raise: it returns its failure value (False, None or
\* (False, reason)) and leaves _logged_in and security_level as they were
C14_TransportFailureDegrades ==
    [][TransportFailed(aResp')
          => /\ FailureValue(aOp', aRet')
             /\ auth'.logged_in = auth.logged_in
             /\ auth'.security_level = auth.security_level]_vars

\* an authenticated session with a recorded level whose level change failed
\* at the POST
C14_Witness ==
    /\ aOp = "set_security_level"
    /\ Len(aResp) = 2 /\ aResp[2] = RequestException
    /\ aRet = FALSE
    /\ auth.logged_in /\ auth.security_level = L_low

\* what set_security_level has to do for a level it rejects
RejectedWithoutRequest ==
    aRet' = FALSE /\ aNet' = <<>> /\ auth' = auth

\* C19: set_security_level(level) with a level that, lower-cased, is not one
\* of low, medium, high, impossible returns False, issues no request and
\* leaves security_level and _logged_in unchanged
C19_UnknownLevelRejected ==
    [][(aOp' = "set_security_level" /\ lower(aArg'[1]) \notin KnownLevels)
          => RejectedWithoutRequest]_vars

\* C19 as stated: the same of every level that is not, as given, one of the
\* four values
C19_AsStated ==
    [][(aOp' = "set_security_level" /\ aArg'[1] \notin KnownLevels)
          => RejectedWithoutRequest]_vars

\* an authenticated session was asked for the level 'extreme'
C19_Witness ==
    /\ aOp = "set_security_level" /\ aArg = <<L_extreme>>
    /\ auth.logged_in
    /\ aRet = FALSE /\ aNet = <<>>

\* what the settings page yields: the value of the selected option when it
\* has one, else the word after 'Security Level is currently: ', else None
LevelOn(page) ==
    IF page.has_selected /\ page.selected_value # <<>>
    THEN lower(page.selected_value)
    ELSE IF page.level_word # <<>> THEN lower(page.level_word)
    ELSE NoneText

\* C20: on an authenticated session, detect_security_level returns for a
\* settings page fetched with status 200 the lower-cased value of the
\* selected option when it has one, else the lower-cased word of the
\* 'Security Level is currently: <word>' pattern, else None; never ''
C20_DetectedLevelOrNone ==
    (aOp = "detect_security_level" /\ Len(aNet) = 1
        /\ IsPage(aResp[1]) /\ aResp[1].status_code = 200)
    => /\ aRet = LevelOn(aResp[1])
       /\ aRet # <<>>
(***************************************************************************)
(* Claims about the scenario modules                                       *)
(***************************************************************************)
\* the request carries `payload` in one of its fields
Carries(request, payload) ==
    \E f \in DOMAIN request.data : Contains(request.data[f], payload)

\* the positions of the payloads judged successful so far
Successes == { k \in 1..Len(m.verdicts) : m.verdicts[k] = "success" }

\* C7: in the reflected and the stored module, once the payload at position k
\* is judged successful the module returns success, and no request carrying a
\* payload at a later position is ever issued in that run
C7_StopsAtFirstSuccess ==
    m.kind \in {"reflected", "stored"} =>
        \A k \in Successes :
            /\ m.pc = "returned" /\ m.ret = TRUE
            /\ k = Len(m.verdicts)
            /\ \A i \in 1..Len(m.net) :
                 \A j \in (k + 1)..Len(Payloads(m.kind)) :
                    ~Carries(m.net[i].request, Payloads(m.kind)[j])

\* the second reflected payload was echoed verbatim and the run has ended
C7_Witness ==
    /\ m.kind = "reflected"
    /\ m.verdicts = <<"failure", "success">>
    /\ m.pc = "returned" /\ m.ret = TRUE
    /\ Carries(m.net[Len(m.net)].request, PAYLOAD_IMG_ONERROR)

\* the requests a reflected run issues when it tries every payload once
AllReflectedRequests ==
    LET url == get_dvwa_url(target, P_xss_r)
    IN  <<Sent(Request("GET", url, [name |-> TEST_INPUT]), "HTTPClient")>> \o
        [j \in 1..Len(ReflectedPayloads) |->
            Sent(Request("GET", url, [name |-> ReflectedPayloads[j]]), "HTTPClient")]

\* C8: a non-interactive reflected run whose baseline request returned a
\* response and in which no payload was judged successful has dispatched each
\* of the three payloads exactly once, in list order, and returned False
C8_AllPayloadsTriedThenFailure ==
    ( /\ m.kind = "reflected" /\ ~m.interactive
      /\ m.pc = "returned"
      /\ m.baseline # NoResponse
      /\ Successes = {} )
    => /\ m.ret = FALSE
       /\ m.net = AllReflectedRequests

\* the payload of the stored attempt judged last
LastStoredPayload == StoredPayloads[Len(m.verdicts)]

\* C9: in the stored module the verdict of an attempt whose re-fetch returned
\* a response is success exactly when the body of that GET contains the
\* literal payload, whatever the POST's own response contained; and the GET
\* is issued only after the POST has returned a response, directly after it
C9_StoredVerdictFromRefetch ==
    m.kind = "stored" =>
        /\ (m.verdicts # <<>> /\ m.resp # NoResponse) =>
              (m.verdicts[Len(m.verdicts)] = "success"
                  <=> Contains(m.resp.text, LastStoredPayload))
        /\ (m.pc = "get") => m.post # NoResponse
        /\ \A i \in 3..Len(m.net) :
              (m.net[i].via = "HTTPClient" /\ m.net[i].request.method = "GET")
                  => (m.net[i - 1].via = "HTTPClient"
                        /\ m.net[i - 1].request.method = "POST")


\* the operator has stopped the module: a go/no-go prompt was declined, or
\* Ctrl+C was pressed
StoppedByOperator == m.declined # NoDecline \/ m.interrupted

\* C17: a run of the DOM module issues at most one request, a GET of the
\* xss_d page through the dispatcher with no parameter; and a run that the
\* operator did not stop and whose page fetch returned a response returns
\* True
C17_DomFetchesOnceAndCompletes ==
    m.kind = "dom" =>
        /\ Len(m.net) <= 1
        /\ \A i \in 1..Len(m.net) :
              m.net[i] = Sent(Request("GET", get_dvwa_url(target, P_xss_d), <<>>),
                              "HTTPClient")
        /\ (m.pc = "returned" /\ ~StoppedByOperator /\ m.baseline # NoResponse)
              => m.ret = TRUE

\* C18: when the operator declines a go/no-go prompt of run_interactive, the
\* module returns False at once and has issued no request since the prompt;
\* declined at the first prompt, it has issued no request at all
C18_DeclineEndsTheModule ==
    m.declined # NoDecline =>
        /\ m.pc = "returned" /\ m.ret = FALSE
        /\ Len(m.net) = m.declined.sent
        /\ m.declined.prompt = "examine" => m.net = <<>>

\* the operator answered 'n' at the second prompt of the stored module,
\* after the guestbook had been read
C18_Witness ==
    /\ m.kind = "stored" /\ m.interactive
    /\ m.declined = [prompt |-> "payloads", answer |-> "n", sent |-> 1]
    /\ m.pc = "returned" /\ m.ret = FALSE
    /\ Len(m.net) = 1

\* the positions in m.net of the forms the stored module has posted
StoredPosts ==
    { i \in 1..Len(m.net) :
        m.net[i].via = "HTTPClient" /\ m.net[i].request.method = "POST" }

\* C22: in every POST of the stored module mtxMessage is a payload of the
\* list, txtName is the author name and btnSign is 'Sign Guestbook'; in the
\* POST just made mtxMessage is exactly the payload of the current attempt
\* and user_token is present exactly when the token fetch of that attempt
\* returned a token
C22_StoredFormCarriesThePayload ==
    m.kind = "stored" =>
        /\ \A i \in StoredPosts :
              LET data == m.net[i].request.data
              IN  /\ \E k \in 1..Len(StoredPayloads) : data.mtxMessage = StoredPayloads[k]
                  /\ data.txtName = S_author
                  /\ data.btnSign = S_sign
        /\ m.pc = "get" =>
              LET data == m.net[Len(m.net)].request.data
              IN  /\ data.mtxMessage = StoredPayloads[m.idx]
                  /\ ("user_token" \in DOMAIN data)
                        <=> (m.token # NoneText /\ m.token # <<>>)

\* the positions in m.net of the dispatched requests that carry `payload`
DispatchesOf(payload) ==
    { i \in 1..Len(m.net) :
        m.net[i].via = "HTTPClient" /\ Carries(m.net[i].request, payload) }

\* this step dispatches the request of an attempt and the dispatcher
\* returns None
DispatchReturnsNone ==
    /\ m.pc \in {"send_payload", "post", "get"}
    /\ m'.pc # "raised"
    /\ Len(m'.net) = Len(m.net) + 1
    /\ (IF m.pc = "post" THEN m'.post ELSE m'.resp) = NoResponse

\* C24: in a run of the reflected or the stored module no payload is
\* dispatched more than once; and when the dispatch of an attempt returns
\* None, the failure is noted once and the module goes on to the next payload
\* of the list, or returns False after the last one
C24_NoResendOnFailure ==
    /\ [](m.kind \in {"reflected", "stored"} =>
            \A k \in 1..Len(Payloads(m.kind)) :
                Cardinality(DispatchesOf(Payloads(m.kind)[k])) <= 1)
    /\ [][DispatchReturnsNone =>
            /\ m'.verdicts = Append(m.verdicts, "request_failed")
            /\ IF m.idx < Len(Payloads(m.kind))
               THEN /\ m'.idx = m.idx + 1
                    /\ m'.pc \in {"prompt_payload", FirstRequestPc(m.kind)}
               ELSE m'.pc = "returned" /\ m'.ret = FALSE]_vars

\* the POST of the first stored payload came back as None, and the module
\* is about to fetch the token for the second
C24_Witness ==
    /\ m.kind = "stored" /\ ~m.interactive
    /\ m.verdicts = <<"request_failed">>
    /\ m.post = NoResponse
    /\ m.idx = 2 /\ m.pc = "csrf"
    /\ Cardinality(DispatchesOf(StoredPayloads[1])) = 1

\* the baseline request of each module
BaselineRequest(kind) ==
    IF kind = "reflected"
    THEN Request("GET", get_dvwa_url(target, P_xss_r), [name |-> TEST_INPUT])
    ELSE IF kind = "stored" THEN Request("GET", get_dvwa_url(target, P_xss_s), <<>>)
    ELSE Request("GET", get_dvwa_url(target, P_xss_d), <<>>)

\* the request carries a payload of the module's list
PayloadBearing(request) ==
    \E k \in 1..Len(Payloads(m.kind)) : Carries(request, Payloads(m.kind)[k])

\* C25: the first request of a module is its baseline request, dispatched
\* before any request that carries a payload; and when the dispatcher
\* returned None for it, the module has returned False and nothing else was
\* sent
C25_BaselineFirst ==
    m.net # <<>> =>
        /\ m.net[1] = Sent(BaselineRequest(m.kind), "HTTPClient")
        /\ ~PayloadBearing(m.net[1].request)
        /\ (m.baseline = NoResponse /\ m.pc # "raised") =>
              /\ m.pc = "returned" /\ m.ret = FALSE
              /\ Len(m.net) = 1

\* the baseline request of the reflected module came back as None
C25_Witness ==
    /\ m.kind = "reflected"
    /\ m.net = <<Sent(BaselineRequest("reflected"), "HTTPClient")>>
    /\ m.baseline = NoResponse
    /\ m.pc = "returned" /\ m.ret = FALSE

\* C28: every request issued while a module runs is sent by the dispatcher's
\* get or post, the token fetch of each stored attempt included
C28_AllRequestsThroughDispatcher ==
    \A i \in 1..Len(m.net) : m.net[i].via = "HTTPClient"

\* this step records the operator's 'n' at the prompt of one payload
DeclinesPayload ==
    /\ m.pc = "prompt_payload"
    /\ m'.verdicts = Append(m.verdicts, "skipped")

\* C29: in the reflected and the stored module a payload declined at its
\* own prompt is never dispatched and is not a success; declining sends
\* nothing and leads to the prompt of the next payload of the list, or to the
\* return of False after the last one; the module returns False from its
\* payload loop only when every payload was declined or tried without success
C29_DeclinedPayloadIsSkipped ==
    /\ [](m.kind \in {"reflected", "stored"} =>
            /\ \A k \in 1..Len(m.verdicts) :
                  m.verdicts[k] = "skipped" =>
                     /\ m.interactive
                     /\ DispatchesOf(Payloads(m.kind)[k]) = {}
                     /\ k \notin Successes
                     /\ k < Len(Payloads(m.kind)) => m.idx > k
            /\ (m.pc = "returned" /\ ~m.ret /\ m.verdicts # <<>>) =>
                  /\ Len(m.verdicts) = Len(Payloads(m.kind))
                  /\ Successes = {})
    /\ [][DeclinesPayload =>
            /\ m'.net = m.net
            /\ IF m.idx < Len(Payloads(m.kind))
               THEN m'.pc = "prompt_payload" /\ m'.idx = m.idx + 1
               ELSE m'.pc = "returned" /\ m'.ret = FALSE]_vars

\* the operator answered 'n' for the first and the third reflected payload;
\* the second was tried and found encoded
C29_Witness ==
    /\ m.kind = "reflected" /\ m.interactive /\ ~m.interrupted
    /\ m.verdicts = <<"skipped", "failure", "skipped">>
    /\ m.pc = "returned" /\ m.ret = FALSE
    /\ Len(m.net) = 2
    /\ Carries(m.net[2].request, ReflectedPayloads[2])

\* the verdict of the attempt judged last, and its payload
LastVerdict == m.verdicts[Len(m.verdicts)]
LastPayload == Payloads(m.kind)[Len(m.verdicts)]

\* C30: a module reports a request failure only for a step whose dispatch
\* returned None: a baseline that came back with a response, whatever its
\* status, does not end the module; an attempt is a request failure only when
\* the payload request (reflected) or the POST or the re-fetch (stored)
\* returned None; and a response that carries the payload verbatim is judged
\* a success whatever its status
C30_OnlyNoneIsARequestFailure ==
    /\ ( /\ m.pc = "returned" /\ ~m.ret /\ m.verdicts = <<>>
         /\ ~StoppedByOperator ) => m.baseline = NoResponse
    /\ (m.kind \in {"reflected", "stored"} /\ m.verdicts # <<>>) =>
          /\ (LastVerdict = "request_failed" /\ m.kind = "reflected") =>
                m.resp = NoResponse
          /\ (LastVerdict = "request_failed" /\ m.kind = "stored") =>
                (m.post = NoResponse \/ m.resp = NoResponse)
          /\ (m.resp # NoResponse /\ Contains(m.resp.text, LastPayload)) =>
                LastVerdict = "success"
(***************************************************************************)
(* Claims about the orchestrator                                           *)
(***************************************************************************)
\* main() has constructed its TargetConfig
TargetBuilt == tOp # "unbuilt"

C15_ExitStatusTellsHowTheRunEnded ==
    process.exited =>
        /\ (process.status = 0) <=> process.summarised
        /\ process.interrupted => process.status = 130
        /\ (~process.summarised /\ ~process.interrupted) => process.status = 1

\* the operator has pressed Ctrl+C, at a prompt or during a network call
Interrupted == process.interrupted \/ m.interrupted

\* C16: once the operator has interrupted the run, at the authorization
\* prompt, at a prompt of a module or while a module or main() waits for the
\* network, no further request is issued and no further module is started;
\* and when the process has exited, no log is left open and the exit status
\* is 130
C16_InterruptEndsTheRun ==
    /\ [][Interrupted => /\ wire' = wire
                         /\ m'.net = m.net \/ m' = NoModule
                         /\ modules_run' = modules_run]_vars
    /\ [](process.exited /\ process.interrupted
            => process.status = 130 /\ logger.state # "open")

\* the place of each phase in the order of a run
PhaseRank(phase) ==
    CASE phase = "preflight" -> 1
      [] phase = "presence" -> 2
      [] phase = "login" -> 3
      [] phase = "detect" -> 4
      [] phase = "set_level" -> 5
      [] phase = "reflected" -> 6
      [] phase = "stored" -> 7
      [] phase = "dom" -> 8

\* the call made for `phase` has returned True
Passed(phase) ==
    \E i \in 1..Len(process.trace) :
        process.trace[i].phase = phase /\ process.trace[i].ok

\* the call made for `phase` has returned
Done(phase) ==
    \E i \in 1..Len(process.trace) : process.trace[i].phase = phase

\* the modules --mode selects, in the order main() runs them
Selected(mode) ==
    LET chosen(name) == mode = "all" \/ ModuleName(mode) = name
    IN  SelectSeq(<<"Reflected XSS", "Stored XSS", "DOM-Based XSS">>, chosen)

\* the modules started so far are the first of those selected
StartedInOrder ==
    /\ Len(modules_run) <= Len(Selected(args.mode))
    /\ modules_run = SubSeq(Selected(args.mode), 1, Len(modules_run))

\* C23: the calls of a run return in the order preflight, presence check,
\* login, level detection, level change, reflected, stored, DOM, each at
\* most once; the probe is sent only to a safe target and before any other
\* request; a module is started or sends a request only after preflight,
\* presence check and login returned True and the level was read; the
\* modules start in the fixed order; and a run that reaches the summary has
\* started every selected module, whatever the level change or an earlier
\* module returned
C23_PhasesInOrder ==
    /\ \A i, j \in 1..Len(process.trace) :
          i < j => PhaseRank(process.trace[i].phase) < PhaseRank(process.trace[j].phase)
    /\ wire # <<>> =>
          /\ is_safe_target(target)
          /\ wire[1] = Sent(Request("GET", base_url(target), <<>>), "requests")
          /\ \A i \in 2..Len(wire) : wire[i].via = "session"
    /\ Len(wire) >= 2 => Passed("preflight")
    /\ Len(wire) >= 3 => Passed("presence")
    /\ (Len(wire) >= 5 \/ Done("detect") \/ Done("set_level")) => Passed("login")
    /\ (m # NoModule \/ modules_run # <<>>) =>
          /\ Passed("preflight") /\ Passed("presence") /\ Passed("login")
          /\ Done("detect")
          /\ StartedInOrder
    /\ process.summarised => modules_run = Selected(args.mode)

\* a run of every module has reached the summary although the level change
\* failed and the reflected and the stored module returned False
C23_Witness ==
    /\ process.summarised
    /\ args.mode = "all"
    /\ \E i \in 1..Len(process.trace) :
          process.trace[i] = [phase |-> "set_level", ok |-> FALSE]
    /\ \E i \in 1..Len(process.trace) :
          process.trace[i] = [phase |-> "reflected", ok |-> FALSE]
    /\ modules_run = <<"Reflected XSS", "Stored XSS", "DOM-Based XSS">>
    /\ modules_succeeded = <<"DOM-Based XSS">>

\* C27: once main() has opened the DualLogger, every way the run ends
\* (summary, failed preflight, presence check or login, Ctrl+C, unexpected
\* error, failure to create the request recorder) has closed it exactly
\* once; until then it is not closed
C27_LoggerClosedOnce ==
    logger # NoLogger =>
        IF pc = "done"
        THEN logger.state = "closed" /\ logger.closed = 1
        ELSE logger.state = "open" /\ logger.closed = 0
(***************************************************************************)
(* Claims about the dispatcher (checked under SpecDispatcher)              *)
(***************************************************************************)
\* the events of the last call that satisfy `kind`
EventsOf(kind) == { i \in 1..Len(http.events) : http.events[i].event = kind }

\* C13: a get or post whose send fails at the transport level does not raise:
\* it returns None, writes one ERROR-level log entry and emits no
\* http_response event
C13_TransportFailureBecomesNone ==
    (http.op \in {"get", "post"} /\ http.outcome = RequestException) =>
        /\ ~http.raised
        /\ http.ret = NoResponse
        /\ Cardinality({ i \in EventsOf("operational") :
                            http.events[i].level = "ERROR" }) = 1
        /\ EventsOf("http_response") = {}

\* a post that was recorded, sent, and failed in transport
C13_Witness ==
    /\ http.op = "post"
    /\ http.outcome = RequestException
    /\ http.recorder
    /\ EventsOf("send") # {}


\* session.send came back with a response
ResponseReceived ==
    http.outcome # RequestException /\ http.outcome # KeyboardInterrupt

\* C26: a get or post logs the request once, first; hands it to the
\* recorder next, once, exactly when one is configured; then sends it, once,
\* whether or not the recorder could write its entry; and logs a response
\* last, once, exactly when the send came back with one
C26_EventsInOrder ==
    http.op \in {"get", "post"} =>
        /\ EventsOf("http_request") = {1}
        /\ http.events[1].request = http.request
        /\ EventsOf("record") = IF http.recorder THEN {2} ELSE {}
        /\ Cardinality(EventsOf("send")) = 1
        /\ \A i \in EventsOf("record"), j \in EventsOf("send") :
              i < j /\ http.events[i].request = http.events[j].request
        /\ EventsOf("http_response") =
              IF ResponseReceived THEN {Len(http.events)} ELSE {}
        /\ \A i \in EventsOf("send"), j \in EventsOf("http_response") : i < j

\* the recorder could not write its entry; the request was sent all the
\* same and its response logged
C26_Witness ==
    /\ http.op = "get"
    /\ http.recorder /\ ~http.written
    /\ ResponseReceived
    /\ Len(http.events) = 5
    /\ http.events[3].level = "WARNING"
    /\ http.events[4].event = "send"
    /\ http.events[5].event = "http_response"
(***************************************************************************)
(* Claims about the presence check                                         *)
(***************************************************************************)
\* the digits that start at position i
RECURSIVE DigitRun(_, _)
DigitRun(text, i) ==
    IF IsDigit(At(text, i)) THEN <<text[i]>> \o DigitRun(text, i + 1) ELSE <<>>

\* <digits>(.<digits>)* read from position i
RECURSIVE DottedDigits(_, _)
DottedDigits(text, i) ==
    LET digits == DigitRun(text, i)
        j == i + Len(digits)
    IN  IF At(text, j) = "." /\ IsDigit(At(text, j + 1))
        THEN digits \o <<".">> \o DottedDigits(text, j + 1)
        ELSE digits

\* the version token of the text: what follows the first 'v' that starts a
\* v<digits>(.<digits>)* pattern, <<>> when there is none
VersionToken(text) ==
    LET starts == { i \in 1..Len(text) : text[i] = "v" /\ IsDigit(At(text, i + 1)) }
    IN  IF starts = {} THEN <<>>
        ELSE DottedDigits(text, (CHOOSE i \in starts : \A j \in starts : i <= j) + 1)

\* C21: verify_dvwa_presence issues exactly one GET of login.php; on a
\* transport error and on every status other than 200 it returns False with
\* the error text or 'HTTP <status>'; on status 200 it returns True exactly
\* when a marker string is in the body, and then the version token of the
\* body, or 'unknown' when the body has none
C21_PresenceFailsClosed ==
    aOp = "verify_dvwa_presence" =>
        /\ aNet = <<Request("GET", auth.base_url \o S_slash_login_php, <<>>)>>
        /\ Len(aRet) = 2
        /\ IF aResp[1] = RequestException
           THEN aRet = <<FALSE, S_conn_error>>
           ELSE IF aResp[1].status_code # 200
           THEN aRet = <<FALSE, S_HTTP_sp \o IntToStr(aResp[1].status_code)>>
           ELSE /\ aRet[1] = find_markers(aResp[1].text)
                /\ aRet[1] => aRet[2] = IF VersionToken(aResp[1].text) # <<>>
                                        THEN VersionToken(aResp[1].text)
                                        ELSE S_unknown
=============================================================================
